---------------------------- MODULE Spec2Model ----------------------------
(***************************************************************************)
(* A model of the JPEG-like codec of this repository: the orchestrator     *)
(* JPEGCompressor (compressor/jpeg_compressor.py) and the stages it calls  *)
(* (functions/*.py).                                                       *)
(*                                                                         *)
(* Numbers.  Python ints are unbounded; every integer the model handles    *)
(* stays far below 2^31.  float64 values are modelled in two ways:         *)
(*   - where the float is a ratio of small integers (colour transform,     *)
(*     block means, resize weights) the model computes with the exact      *)
(*     ratio;                                                              *)
(*   - the DCT basis and everything multiplied by it are fixed-point       *)
(*     numbers with FracBits fractional bits ("Fix" values).               *)
(* Arrays are 1-indexed sequences; a 2-D array is a sequence of rows.      *)
(***************************************************************************)
EXTENDS Integers, Sequences, FiniteSets, TLC

(***************************************************************************)
(* Bounds of the model.                                                    *)
(***************************************************************************)
\* image widths and heights of the pipeline runs are 1 .. MaxDim
MaxDim == 9
\* block sizes of the BlockSplitter / ZigZag unit runs are 1 .. MaxN
MaxN == 4
\* plane widths and heights of the BlockSplitter unit runs are 1 .. MaxPlane
MaxPlane == 5

(***************************************************************************)
(* Integer helpers.                                                        *)
(***************************************************************************)
Abs(x) == IF x < 0 THEN -x ELSE x

Min(a, b) == IF a < b THEN a ELSE b

Max(a, b) == IF a > b THEN a ELSE b

\* ceil(a / b) as the code writes it: (a + b - 1) // b
CeilDiv(a, b) == (a + b - 1) \div b

\* numpy's np.clip / Python's max(lo, min(hi, x))
Clip(x, lo, hi) == Max(lo, Min(hi, x))

\* round(n / d) for d > 0, ties to the even integer: Python's round() and
\* numpy's np.round on a float
RoundHalfEven(n, d) ==
    LET q == n \div d
        r == n % d
    IN  IF 2 * r < d THEN q
        ELSE IF 2 * r > d THEN q + 1
        ELSE IF q % 2 = 0 THEN q ELSE q + 1

\* int(n / d) for d > 0: Python's int() on a float truncates toward zero
TruncDiv(n, d) == IF n >= 0 THEN n \div d ELSE -((-n) \div d)

\* sum of the integers f[lo] .. f[hi], by halving (the interpreter's stack
\* does not allow one recursion level per element on long sequences)
RECURSIVE SumRange(_, _, _)
SumRange(f, lo, hi) ==
    IF lo > hi THEN 0
    ELSE IF lo = hi THEN f[lo]
    ELSE LET mid == (lo + hi) \div 2
         IN  SumRange(f, lo, mid) + SumRange(f, mid + 1, hi)

\* concatenation of the sequences f[lo] .. f[hi], by halving
RECURSIVE ConcatRange(_, _, _)
ConcatRange(f, lo, hi) ==
    IF lo > hi THEN << >>
    ELSE IF lo = hi THEN f[lo]
    ELSE LET mid == (lo + hi) \div 2
         IN  ConcatRange(f, lo, mid) \o ConcatRange(f, mid + 1, hi)

Flatten(seqs) == ConcatRange(seqs, 1, Len(seqs))

\* the sequence s itself; the concatenation makes the interpreter compute its
\* elements once rather than at every use
Strict(s) == s \o << >>

\* s[a .. b] with Python's slice semantics on 0-based half-open [from, to)
Slice(s, from, to) ==
    LET lo == Min(from, Len(s))
        hi == Min(to, Len(s))
    IN  IF hi <= lo THEN << >> ELSE [i \in 1 .. (hi - lo) |-> s[lo + i]]

(***************************************************************************)
(* A call that can raise returns Return(value) or Raise.                   *)
(***************************************************************************)
Raise == [raised |-> TRUE, value |-> << >>]

Return(v) == [raised |-> FALSE, value |-> v]

(***************************************************************************)
(* functions/RGBToYCbCr.py                                                 *)
(***************************************************************************)
\* one pixel of RGBToYCbCr.convert: round() of the BT.601 value, then clamp.
\* The sums are exact here and float64 in the code; the two round alike except
\* at some exact ties n + 1/2, where the float64 sum may fall on the other side
\* (<< 200, 200, 1 >> gives Cb 29 in the code, 28 here).
ConvertPixel(r, g, b) ==
    LET y  == RoundHalfEven(299 * r + 587 * g + 114 * b, 1000)
        cb == RoundHalfEven(-1687 * r - 3313 * g + 5000 * b + 1280000, 10000)
        cr == RoundHalfEven(5000 * r - 4187 * g - 813 * b + 1280000, 10000)
    IN  << Clip(y, 0, 255), Clip(cb, 0, 255), Clip(cr, 0, 255) >>

\* one pixel of RGBToYCbCr.inverse: int() of the BT.601 value, then clamp.
\* The sums are exact here and float64 in the code; int() of the two differs
\* only for cb = 28, cr = 228, y in 94 .. 165, where the exact G is the integer
\* y - 37 and the float64 sum lies just below it.
InversePixel(y, cb, cr) ==
    LET r == TruncDiv(1000 * y + 1402 * (cr - 128), 1000)
        g == TruncDiv(100000 * y - 34414 * (cb - 128) - 71414 * (cr - 128), 100000)
             - (IF cb = 28 /\ cr = 228 /\ y \in 94 .. 165 THEN 1 ELSE 0)
        b == TruncDiv(1000 * y + 1772 * (cb - 128), 1000)
    IN  << Clip(r, 0, 255), Clip(g, 0, 255), Clip(b, 0, 255) >>

\* convert that leaves out the bytes after the last whole triplet
RGBToYCbCr_convert_truncating(rgb_data) ==
    Return(Flatten([i \in 1 .. Len(rgb_data) \div 3 |->
            ConvertPixel(rgb_data[3 * i - 2], rgb_data[3 * i - 1], rgb_data[3 * i])]))

\* RGBToYCbCr.convert on a packed buffer; Raise stands for the ValueError
RGBToYCbCr_convert(rgb_data) ==
    IF Len(rgb_data) % 3 # 0 THEN Raise
    ELSE Return(Flatten([i \in 1 .. Len(rgb_data) \div 3 |->
            ConvertPixel(rgb_data[3 * i - 2], rgb_data[3 * i - 1], rgb_data[3 * i])]))

RGBToYCbCr_inverse(ycbcr_data) ==
    IF Len(ycbcr_data) % 3 # 0 THEN Raise
    ELSE Return(Flatten([i \in 1 .. Len(ycbcr_data) \div 3 |->
            InversePixel(ycbcr_data[3 * i - 2], ycbcr_data[3 * i - 1], ycbcr_data[3 * i])]))

(***************************************************************************)
(* functions/downsampler.py                                                *)
(***************************************************************************)
\* Downsampler.downsample.  channel is a 2-D array of integers.  The result
\* is the block means, kept exact: num[i][j] / den is the float mean of block
\* (i, j) of the plane padded on the bottom and right with fill_value.  A
\* plane without rows is the 0 x 0 plane.
Downsampler_downsample(factor_y, factor_x, fill_value, channel) ==
    LET h     == Len(channel)
        w     == IF h = 0 THEN 0 ELSE Len(channel[1])
        pad_h == (-h) % factor_y
        pad_w == (-w) % factor_x
        h_p   == h + pad_h
        w_p   == w + pad_w
        new_h == h_p \div factor_y
        new_w == w_p \div factor_x
        At(y, x) == IF y <= h /\ x <= w THEN channel[y][x] ELSE fill_value
        BlockSum(i, j) ==
            SumRange([t \in 1 .. factor_y * factor_x |->
                        At((i - 1) * factor_y + ((t - 1) \div factor_x) + 1,
                           (j - 1) * factor_x + ((t - 1) % factor_x) + 1)],
                     1, factor_y * factor_x)
    IN  [num |-> [i \in 1 .. new_h |-> [j \in 1 .. new_w |-> BlockSum(i, j)]],
         den |-> factor_y * factor_x]

\* Pillow's fixed-point one of the 8-bit resize coefficients, 1 << (32 - 8 - 2)
PrecisionOne == 4194304

\* Pillow's precompute_coeffs + normalize_coeffs_8bpc for the bilinear
\* (triangle, support 1) filter when inSize <= outSize: for output index xx
\* (0-based) the first input index xmin and the integer weights k of the
\* inputs xmin .. xmin + Len(k) - 1.  center = (2 xx + 1) inSize / (2 outSize).
ResizeCoeffs(inSize, outSize, xx) ==
    LET den   == 2 * outSize
        cnum  == (2 * xx + 1) * inSize
        xmin  == Max(0, TruncDiv(cnum - outSize, den))
        xmax  == Min(inSize, TruncDiv(cnum + 3 * outSize, den))
        cnt   == xmax - xmin
        tnum(x) == Abs((2 * (x + xmin) + 1) * outSize - cnum)
        wnum(x) == IF tnum(x) < den THEN den - tnum(x) ELSE 0
        ww    == SumRange([x \in 0 .. cnt - 1 |-> wnum(x)], 0, cnt - 1)
        \* (int) (0.5 + wnum / ww * PrecisionOne), on 11-bit halves of PrecisionOne
        \* so that no product leaves 31 bits
        coef(x) == LET a == wnum(x) * 2048
                   IN  (a \div ww) * 2048 + ((4096 * (a % ww) + ww) \div (2 * ww))
    IN  [xmin |-> xmin,
         k    |-> [x \in 1 .. cnt |-> IF ww = 0 THEN 0 ELSE coef(x - 1)]]

\* one pass of Pillow's ImagingResampleHorizontal_8bpc over one line
ResizeLine(line, outSize) ==
    LET inSize == Len(line)
    IN  IF inSize = outSize THEN line
        ELSE [xx \in 1 .. outSize |->
                LET c  == ResizeCoeffs(inSize, outSize, xx - 1)
                    ss == (PrecisionOne \div 2)
                          + SumRange([x \in 1 .. Len(c.k) |-> line[c.xmin + x] * c.k[x]],
                                     1, Len(c.k))
                IN  Clip(ss \div PrecisionOne, 0, 255)]

\* Downsampler.upsample: Image.resize((w_orig, h_orig), BILINEAR) of the 8-bit
\* plane: the horizontal pass, then the vertical pass, each rounding to 8 bits.
\* factor_y, factor_x and fill_value are not read.
Downsampler_upsample(downsampled, h_orig, w_orig) ==
    LET h_in == Len(downsampled)
        hor  == Strict([y \in 1 .. h_in |-> Strict(ResizeLine(downsampled[y], w_orig))])
        cols == Strict([x \in 1 .. w_orig |->
                   Strict(ResizeLine([y \in 1 .. h_in |-> hor[y][x]], h_orig))])
    IN  [y \in 1 .. h_orig |-> [x \in 1 .. w_orig |-> cols[x][y]]]

(***************************************************************************)
(* functions/blocks.py                                                     *)
(***************************************************************************)
\* convert with the tiles listed column of tiles after column of tiles
BlockSplitter_convert_colmajor(block_size, fill_value, data, width, height) ==
    IF Len(data) # width * height THEN Raise
    ELSE
    LET nbx == CeilDiv(width, block_size)
        nby == CeilDiv(height, block_size)
        At(y, x) == IF y < height /\ x < width THEN data[y * width + x + 1]
                    ELSE fill_value
    IN  Return([k \in 1 .. nby * nbx |->
            [p \in 1 .. block_size * block_size |->
                At(((k - 1) % nby) * block_size + ((p - 1) \div block_size),
                   ((k - 1) \div nby) * block_size + ((p - 1) % block_size))]])

\* BlockSplitter.convert: the list of N x N tiles (each a flat row-major byte
\* sequence) of the plane padded on the right and bottom with fill_value;
\* Raise stands for the ValueError on a buffer of the wrong length.
BlockSplitter_convert(block_size, fill_value, data, width, height) ==
    IF Len(data) # width * height THEN Raise
    ELSE
    LET pad_h    == (block_size - (height % block_size)) % block_size
        pad_w    == (block_size - (width % block_size)) % block_size
        h_padded == height + pad_h
        w_padded == width + pad_w
        nbx      == w_padded \div block_size
        nby      == h_padded \div block_size
        \* arr[y][x] of the padded array, 0-based
        At(y, x) == IF y < height /\ x < width THEN data[y * width + x + 1]
                    ELSE fill_value
    IN  Return([k \in 1 .. nby * nbx |->
            [p \in 1 .. block_size * block_size |->
                At(((k - 1) \div nbx) * block_size + ((p - 1) \div block_size),
                   ((k - 1) % nbx) * block_size + ((p - 1) % block_size))]])

\* inverse with every tile read transposed
BlockSplitter_inverse_transposed(block_size, fill_value, blocks, width, height) ==
    LET blocks_per_row == CeilDiv(width, block_size)
        blocks_per_col == CeilDiv(height, block_size)
    IN  IF Len(blocks) # blocks_per_row * blocks_per_col THEN Raise
        ELSE IF \E k \in 1 .. Len(blocks) : Len(blocks[k]) # block_size * block_size
        THEN Raise
        ELSE Return([i \in 1 .. width * height |->
                LET y   == (i - 1) \div width
                    x   == (i - 1) % width
                    idx == (y \div block_size) * blocks_per_row + (x \div block_size)
                IN  blocks[idx + 1][(x % block_size) * block_size + (y % block_size) + 1]])

\* inverse that takes a list with tiles to spare
BlockSplitter_inverse_spareTiles(block_size, fill_value, blocks, width, height) ==
    LET blocks_per_row == CeilDiv(width, block_size)
        blocks_per_col == CeilDiv(height, block_size)
    IN  IF Len(blocks) < blocks_per_row * blocks_per_col THEN Raise
        ELSE IF \E k \in 1 .. Len(blocks) : Len(blocks[k]) # block_size * block_size
        THEN Raise
        ELSE Return([i \in 1 .. width * height |->
                LET y   == (i - 1) \div width
                    x   == (i - 1) % width
                    idx == (y \div block_size) * blocks_per_row + (x \div block_size)
                IN  blocks[idx + 1][(y % block_size) * block_size + (x % block_size) + 1]])

\* inverse whose loop stops before the last tile, whose cells keep fill_value
BlockSplitter_inverse_lastTileUnset(block_size, fill_value, blocks, width, height) ==
    LET blocks_per_row == CeilDiv(width, block_size)
        blocks_per_col == CeilDiv(height, block_size)
    IN  IF Len(blocks) # blocks_per_row * blocks_per_col THEN Raise
        ELSE IF \E k \in 1 .. Len(blocks) : Len(blocks[k]) # block_size * block_size
        THEN Raise
        ELSE Return([i \in 1 .. width * height |->
                LET y   == (i - 1) \div width
                    x   == (i - 1) % width
                    idx == (y \div block_size) * blocks_per_row + (x \div block_size)
                IN  IF idx < Len(blocks) - 1
                    THEN blocks[idx + 1][(y % block_size) * block_size + (x % block_size) + 1]
                    ELSE fill_value])

\* BlockSplitter.inverse: Raise stands for the ValueError on a wrong tile
\* count (and for numpy's error on a tile that is not block_size^2 bytes).
\* The array starts as fill_value everywhere, each tile is written over its
\* cells, and the array is cut to height x width.
BlockSplitter_inverse(block_size, fill_value, blocks, width, height) ==
    LET blocks_per_row == CeilDiv(width, block_size)
        blocks_per_col == CeilDiv(height, block_size)
    IN  IF Len(blocks) # blocks_per_row * blocks_per_col THEN Raise
        ELSE IF \E k \in 1 .. Len(blocks) : Len(blocks[k]) # block_size * block_size
        THEN Raise
        ELSE Return([i \in 1 .. width * height |->
                LET y   == (i - 1) \div width
                    x   == (i - 1) % width
                    idx == (y \div block_size) * blocks_per_row + (x \div block_size)
                IN  IF idx < Len(blocks)
                    THEN blocks[idx + 1][(y % block_size) * block_size + (x % block_size) + 1]
                    ELSE fill_value])

(***************************************************************************)
(* functions/DCT2D.py                                                      *)
(*                                                                         *)
(* A Fix value x stands for the float x / FixOne.  The basis matrix is the *)
(* float matrix rounded to FracBits fractional bits, so a coefficient is   *)
(* within about 1e-4 of the float64 one.                                   *)
(***************************************************************************)
\* 2^20: the fixed-point one
FixOne == 1048576

ToFix(n) == n * FixOne

\* a * b / FixOne rounded, for Fix a with |a| < 1.5 * 2^30 and 0 <= |b| <= FixOne,
\* computed on 15- and 10-bit halves so that no product leaves 31 bits
FixMul(a, b) ==
    LET aa == Abs(a)
        bb == Abs(b)
        ah == aa \div 32768
        al == aa % 32768
        bh == bb \div 1024
        bl == bb % 1024
        m  == ah * bh * 32
              + ((ah * bl * 32 + al * bh + ((al * bl) \div 1024) + 512) \div 1024)
    IN  IF (a < 0) = (b < 0) THEN m ELSE -m

\* the basis matrix with alpha(0) = sqrt(2 / N) as for the other rows
DctMatrix_alphaOfRows(N) ==
    CASE N = 1 -> << << 1482910 >> >>
      [] N = 2 -> << << 1048576, 1048576 >>,
                     << 741455, -741455 >> >>
      [] N = 4 -> << << 741455, 741455, 741455, 741455 >>,
                     << 685015, 283743, -283743, -685015 >>,
                     << 524288, -524288, -524288, 524288 >>,
                     << 283743, -685015, 685015, -283743 >> >>
      [] N = 8 ->
         << << 524288, 524288, 524288, 524288, 524288, 524288, 524288, 524288 >>,
            << 514214, 435930, 291279, 102284, -102284, -291279, -435930, -514214 >>,
            << 484379, 200636, -200636, -484379, -484379, -200636, 200636, 484379 >>,
            << 435930, -102284, -514214, -291279, 291279, 514214, 102284, -435930 >>,
            << 370728, -370728, -370728, 370728, 370728, -370728, -370728, 370728 >>,
            << 291279, -514214, 102284, 435930, -435930, -102284, 514214, -291279 >>,
            << 200636, -484379, 484379, -200636, -200636, 484379, -484379, 200636 >>,
            << 102284, -291279, 435930, -514214, 514214, -435930, 291279, -102284 >> >>

\* DCT2D._create_dct_matrix(N): D[k][n] = alpha(k) cos(pi (2n+1) k / 2N), as Fix,
\* for the block sizes the model uses
DctMatrix(N) ==
    CASE N = 1 -> << << 1048576 >> >>
      [] N = 2 -> << << 741455, 741455 >>,
                     << 741455, -741455 >> >>
      [] N = 4 -> << << 524288, 524288, 524288, 524288 >>,
                     << 685015, 283743, -283743, -685015 >>,
                     << 524288, -524288, -524288, 524288 >>,
                     << 283743, -685015, 685015, -283743 >> >>
      [] N = 8 ->
         << << 370728, 370728, 370728, 370728, 370728, 370728, 370728, 370728 >>,
            << 514214, 435930, 291279, 102284, -102284, -291279, -435930, -514214 >>,
            << 484379, 200636, -200636, -484379, -484379, -200636, 200636, 484379 >>,
            << 435930, -102284, -514214, -291279, 291279, 514214, 102284, -435930 >>,
            << 370728, -370728, -370728, 370728, 370728, -370728, -370728, 370728 >>,
            << 291279, -514214, 102284, 435930, -435930, -102284, 514214, -291279 >>,
            << 200636, -484379, 484379, -200636, -200636, 484379, -484379, 200636 >>,
            << 102284, -291279, 435930, -514214, 514214, -435930, 291279, -102284 >> >>

\* the shape (rows, columns) of a 2-D array
Shape(m) == << Len(m), IF Len(m) = 0 THEN 0 ELSE Len(m[1]) >>

\* DCT2D.forward: C = D . f . D^T on a Fix matrix; Raise is the ValueError
DCT2D_forward(N, block) ==
    IF Shape(block) # << N, N >> THEN Raise
    ELSE
    LET D  == DctMatrix(N)
        T1 == Strict([k \in 1 .. N |-> Strict([j \in 1 .. N |->
                 SumRange([n \in 1 .. N |-> FixMul(block[n][j], D[k][n])], 1, N)])])
    IN  Return([k \in 1 .. N |-> [l \in 1 .. N |->
            SumRange([j \in 1 .. N |-> FixMul(T1[k][j], D[l][j])], 1, N)]])

\* DCT2D.inverse: f = D^T . C . D on a Fix matrix
DCT2D_inverse(N, coeffs) ==
    IF Shape(coeffs) # << N, N >> THEN Raise
    ELSE
    LET D  == DctMatrix(N)
        T1 == Strict([n \in 1 .. N |-> Strict([l \in 1 .. N |->
                 SumRange([k \in 1 .. N |-> FixMul(coeffs[k][l], D[k][n])], 1, N)])])
    IN  Return([n \in 1 .. N |-> [m \in 1 .. N |->
            SumRange([l \in 1 .. N |-> FixMul(T1[n][l], D[l][m])], 1, N)]])

(***************************************************************************)
(* functions/qantizer.py                                                   *)
(***************************************************************************)
_BASE_LUMINANCE ==
    << << 16, 11, 10, 16, 24, 40, 51, 61 >>,
       << 12, 12, 14, 19, 26, 58, 60, 55 >>,
       << 14, 13, 16, 24, 40, 57, 69, 56 >>,
       << 14, 17, 22, 29, 51, 87, 80, 62 >>,
       << 18, 22, 37, 56, 68, 109, 103, 77 >>,
       << 24, 35, 55, 64, 81, 104, 113, 92 >>,
       << 49, 64, 78, 87, 103, 121, 120, 101 >>,
       << 72, 92, 95, 98, 112, 100, 103, 99 >> >>

_BASE_CHROMINANCE ==
    << << 17, 18, 24, 47, 99, 99, 99, 99 >>,
       << 18, 21, 26, 66, 99, 99, 99, 99 >>,
       << 24, 26, 56, 99, 99, 99, 99, 99 >>,
       << 47, 66, 99, 99, 99, 99, 99, 99 >>,
       << 99, 99, 99, 99, 99, 99, 99, 99 >>,
       << 99, 99, 99, 99, 99, 99, 99, 99 >>,
       << 99, 99, 99, 99, 99, 99, 99, 99 >>,
       << 99, 99, 99, 99, 99, 99, 99, 99 >> >>

\* Quantizer._scale_factor
_scale_factor(quality) ==
    LET q == Max(1, Min(quality, 100))
    IN  IF q < 50 THEN 5000 \div q ELSE 200 - 2 * q

\* scale_table without the rounding term
scale_table_noRound(base, scale) ==
    [i \in 1 .. Len(base) |-> [j \in 1 .. Len(base[i]) |->
        Clip((base[i][j] * scale) \div 100, 1, 255)]]

\* scale_table of Quantizer.get_quant_tables
scale_table(base, scale) ==
    [i \in 1 .. Len(base) |-> [j \in 1 .. Len(base[i]) |->
        Clip((base[i][j] * scale + 50) \div 100, 1, 255)]]

\* Quantizer.get_quant_tables: << table_y, table_cbcr >>
get_quant_tables(quality) ==
    LET scale == _scale_factor(quality)
    IN  << scale_table(_BASE_LUMINANCE, scale), scale_table(_BASE_CHROMINANCE, scale) >>

\* quantize that cuts the quotient off towards zero
Quantizer_quantize_truncating(coeffs, table) ==
    IF Shape(coeffs) # Shape(table) THEN Raise
    ELSE Return([i \in 1 .. Len(coeffs) |-> [j \in 1 .. Len(coeffs[i]) |->
            TruncDiv(coeffs[i][j], table[i][j] * FixOne)]])

\* quantize without the check of the shapes
Quantizer_quantize_anyShape(coeffs, table) ==
    Return([i \in 1 .. Len(coeffs) |-> [j \in 1 .. Len(coeffs[i]) |->
        RoundHalfEven(coeffs[i][j], table[i][j] * FixOne)]])

\* Quantizer.quantize: np.round(coeffs / table) on a Fix matrix, an integer
\* matrix; Raise is the ValueError on different shapes
Quantizer_quantize(coeffs, table) ==
    IF Shape(coeffs) # Shape(table) THEN Raise
    ELSE Return([i \in 1 .. Len(coeffs) |-> [j \in 1 .. Len(coeffs[i]) |->
            RoundHalfEven(coeffs[i][j], table[i][j] * FixOne)]])

\* Quantizer.dequantize: qcoeffs * table as floats, a Fix matrix
Quantizer_dequantize(qcoeffs, table) ==
    IF Shape(qcoeffs) # Shape(table) THEN Raise
    ELSE Return([i \in 1 .. Len(qcoeffs) |-> [j \in 1 .. Len(qcoeffs[i]) |->
            ToFix(qcoeffs[i][j] * table[i][j])]])

(***************************************************************************)
(* functions/zigzag.py                                                     *)
(***************************************************************************)
\* the anti-diagonals walked the other way round: even s from the top
DiagonalCells_flipped(n, s) ==
    IF s % 2 = 1
    THEN LET i_start == Min(s, n - 1)
             j_start == s - i_start
             steps   == Min(i_start + 1, n - j_start)
         IN  [t \in 1 .. steps |-> << i_start - (t - 1), j_start + (t - 1) >>]
    ELSE LET j_start == Min(s, n - 1)
             i_start == s - j_start
             steps   == Min(j_start + 1, n - i_start)
         IN  [t \in 1 .. steps |-> << i_start + (t - 1), j_start - (t - 1) >>]

\* the cells one pass of the loop over s appends: anti-diagonal s of an n x n
\* matrix, as 0-based << i, j >> pairs
DiagonalCells(n, s) ==
    IF s % 2 = 0
    THEN LET i_start == Min(s, n - 1)
             j_start == s - i_start
             steps   == Min(i_start + 1, n - j_start)
         IN  [t \in 1 .. steps |-> << i_start - (t - 1), j_start + (t - 1) >>]
    ELSE LET j_start == Min(s, n - 1)
             i_start == s - j_start
             steps   == Min(j_start + 1, n - i_start)
         IN  [t \in 1 .. steps |-> << i_start + (t - 1), j_start - (t - 1) >>]

\* ZigZag._generate_indices(n)
_generate_indices(n) ==
    Flatten([s1 \in 1 .. 2 * n - 1 |-> DiagonalCells(n, s1 - 1)])

\* ZigZag.encode of an N x N matrix with the index list indices
ZigZag_encode(N, indices, block) ==
    IF Shape(block) # << N, N >> THEN Raise
    ELSE Return([k \in 1 .. Len(indices) |-> block[indices[k][1] + 1][indices[k][2] + 1]])

\* decode writing block[j, i] for the index (i, j)
ZigZag_decode_transposed(N, indices, data) ==
    IF Len(data) # N * N THEN Raise
    ELSE Return([i \in 1 .. N |-> [j \in 1 .. N |->
            LET ks == { k \in 1 .. Len(indices) : indices[k] = << j - 1, i - 1 >> }
            IN  IF ks = {} THEN 0
                ELSE data[CHOOSE k \in ks : \A k2 \in ks : k2 <= k]]])

\* ZigZag.decode: a zero matrix, then block[i, j] = data[idx] in list order
ZigZag_decode(N, indices, data) ==
    IF Len(data) # N * N THEN Raise
    ELSE Return([i \in 1 .. N |-> [j \in 1 .. N |->
            LET ks == { k \in 1 .. Len(indices) : indices[k] = << i - 1, j - 1 >> }
            IN  IF ks = {} THEN 0
                ELSE data[CHOOSE k \in ks : \A k2 \in ks : k2 <= k]]])

(***************************************************************************)
(* functions/DCDifferentialCodec.py                                        *)
(***************************************************************************)
\* encode with every difference taken the other way round
DCDifferentialCodec_encode_negated(dc_coeffs) ==
    IF Len(dc_coeffs) = 0 THEN Raise
    ELSE Return([i \in 1 .. Len(dc_coeffs) |->
            IF i = 1 THEN dc_coeffs[1] ELSE dc_coeffs[i - 1] - dc_coeffs[i]])

\* encode that takes the empty sequence and returns it
DCDifferentialCodec_encode_emptyAccepted(dc_coeffs) ==
    Return([i \in 1 .. Len(dc_coeffs) |->
        IF i = 1 THEN dc_coeffs[1] ELSE dc_coeffs[i] - dc_coeffs[i - 1]])

\* DCDifferentialCodec.encode; Raise is the ValueError on an empty sequence
DCDifferentialCodec_encode(dc_coeffs) ==
    IF Len(dc_coeffs) = 0 THEN Raise
    ELSE Return([i \in 1 .. Len(dc_coeffs) |->
            IF i = 1 THEN dc_coeffs[1] ELSE dc_coeffs[i] - dc_coeffs[i - 1]])

\* DCDifferentialCodec.decode: the running sum
RECURSIVE RunningSum(_, _)
RunningSum(diffs, n) ==
    IF n = 1 THEN << diffs[1] >>
    ELSE LET prev == RunningSum(diffs, n - 1)
         IN  Append(prev, prev[n - 1] + diffs[n])

\* decode that adds every difference to the first value
DCDifferentialCodec_decode_fromFirst(diffs) ==
    IF Len(diffs) = 0 THEN Raise
    ELSE Return([i \in 1 .. Len(diffs) |->
            IF i = 1 THEN diffs[1] ELSE diffs[1] + diffs[i]])

DCDifferentialCodec_decode(diffs) ==
    IF Len(diffs) = 0 THEN Raise ELSE Return(RunningSum(diffs, Len(diffs)))

(***************************************************************************)
(* compressor/rle.py (RLECompressor): run-length coding of a byte string   *)
(* as (count, value) byte pairs, count in 1 .. MaxRun.                     *)
(***************************************************************************)
\* the longest run one pair holds: a count is one byte
MaxRun == 255

\* the runs of left followed by the runs of right, the run across the seam
\* joined
MergeRuns(left, right) ==
    LET a == left[Len(left)]
        b == right[1]
    IN  IF a[2] # b[2] THEN left \o right
        ELSE SubSeq(left, 1, Len(left) - 1)
             \o << << a[1] + b[1], a[2] >> >>
             \o SubSeq(right, 2, Len(right))

\* the maximal runs of data[lo .. hi] as << length, value >> pairs
RECURSIVE RunsOf(_, _, _)
RunsOf(data, lo, hi) ==
    IF lo > hi THEN << >>
    ELSE IF lo = hi THEN << << 1, data[lo] >> >>
    ELSE LET mid == (lo + hi) \div 2
         IN  MergeRuns(RunsOf(data, lo, mid), RunsOf(data, mid + 1, hi))

\* one run as a single pair, the count cut to a byte
RunBytes_wrapping(run) == << run[1] % 256, run[2] >>

\* one run as (count, value) byte pairs: MaxRun at a time, then the rest
RunBytes(run) ==
    LET pairs == CeilDiv(run[1], MaxRun)
    IN  [i \in 1 .. 2 * pairs |->
            IF i % 2 = 0 THEN run[2]
            ELSE IF (i + 1) \div 2 < pairs THEN MaxRun
            ELSE run[1] - MaxRun * (pairs - 1)]

RLECompressor_compress(data) ==
    LET runs == RunsOf(data, 1, Len(data))
    IN  Flatten([k \in 1 .. Len(runs) |-> RunBytes(runs[k])])

RLECompressor_decompress(data) ==
    Flatten([k \in 1 .. Len(data) \div 2 |->
                [t \in 1 .. data[2 * k - 1] |-> data[2 * k]]])

(***************************************************************************)
(* compressor/ha.py (HACompressor): a static Huffman coder.  The output is *)
(*   byte 0          number of distinct symbols - 1                        *)
(*   2 bytes each    (symbol, code length), in canonical order             *)
(*   4 bytes         number of coded symbols, big-endian                   *)
(*   the rest        the codes, packed most significant bit first          *)
(* and the empty string for the empty input.                               *)
(***************************************************************************)
\* the longest code the bit reader handles
MaxCodeLen == 24

\* 2^n for n in 0 .. 30
Pow2(n) ==
    << 1, 2, 4, 8, 16, 32, 64, 128, 256, 512, 1024, 2048, 4096, 8192, 16384, 32768,
       65536, 131072, 262144, 524288, 1048576, 2097152, 4194304, 8388608, 16777216,
       33554432, 67108864, 134217728, 268435456, 536870912, 1073741824 >>[n + 1]

\* one step of the Huffman construction on st = [nodes, depth]: the two nodes
\* of least weight (ties: least symbol) are joined and their leaves sink by one
HuffStep(st) ==
    IF Cardinality(st.nodes) <= 1 THEN st
    ELSE
    LET Less(x, y) == x.w < y.w \/ (x.w = y.w /\ x.m < y.m)
        a == CHOOSE x \in st.nodes : \A y \in st.nodes \ {x} : Less(x, y)
        rest == st.nodes \ {a}
        b == CHOOSE x \in rest : \A y \in rest \ {x} : Less(x, y)
        joined == [w |-> a.w + b.w, m |-> Min(a.m, b.m), leaves |-> a.leaves \cup b.leaves]
    IN  [nodes |-> (rest \ {b}) \cup {joined},
         depth |-> [s \in DOMAIN st.depth |->
                      IF s \in joined.leaves THEN st.depth[s] + 1 ELSE st.depth[s]]]

HuffStep8(st) ==
    HuffStep(HuffStep(HuffStep(HuffStep(HuffStep(HuffStep(HuffStep(HuffStep(st))))))))

RECURSIVE HuffLoop(_)
HuffLoop(st) == IF Cardinality(st.nodes) <= 1 THEN st ELSE HuffLoop(HuffStep8(st))

\* the code length of every symbol of data (1 for a single distinct symbol)
CodeLengths(data) ==
    LET syms == { data[i] : i \in 1 .. Len(data) }
        freq == [s \in syms |-> Cardinality({ i \in 1 .. Len(data) : data[i] = s })]
        st0  == [nodes |-> { [w |-> freq[s], m |-> s, leaves |-> {s}] : s \in syms },
                 depth |-> [s \in syms |-> 0]]
    IN  IF Cardinality(syms) = 1 THEN [s \in syms |-> 1]
        ELSE HuffLoop(st0).depth

\* the symbols of lens, by code length and then by symbol: << symbol, length >>
CanonicalOrder(lens) ==
    LET syms == DOMAIN lens
        Before(t, s) == lens[t] < lens[s] \/ (lens[t] = lens[s] /\ t < s)
        rank(s) == Cardinality({ t \in syms : Before(t, s) }) + 1
    IN  [k \in 1 .. Cardinality(syms) |->
            LET s == CHOOSE s \in syms : rank(s) = k IN << s, lens[s] >>]

\* the canonical code of entry k of table (a sequence of << symbol, length >>
\* by ascending length)
CanonicalCode(table, k) ==
    SumRange([j \in 1 .. k - 1 |-> Pow2(table[k][2] - table[j][2])], 1, k - 1)

\* the bits of code, most significant first
CodeBits(code, len) == [b \in 1 .. len |-> (code \div Pow2(len - b)) % 2]

\* n as 4 bytes, big-endian
Pack32(n) == << (n \div 16777216) % 256, (n \div 65536) % 256, (n \div 256) % 256, n % 256 >>

Unpack32(b) == ((b[1] * 256 + b[2]) * 256 + b[3]) * 256 + b[4]

\* bits packed into bytes, most significant first, the last byte zero-padded
PackBits(bits) ==
    [i \in 1 .. CeilDiv(Len(bits), 8) |->
        SumRange([j \in 1 .. 8 |->
                    IF 8 * (i - 1) + j <= Len(bits)
                    THEN bits[8 * (i - 1) + j] * Pow2(8 - j) ELSE 0], 1, 8)]

HACompressor_compress(data) ==
    IF Len(data) = 0 THEN << >>
    ELSE
    LET table  == Strict(CanonicalOrder(CodeLengths(data)))
        codes  == Strict([k \in 1 .. Len(table) |->
                            Strict(CodeBits(CanonicalCode(table, k), table[k][2]))])
        \* entry of each byte value in table (0: not a symbol of data)
        rankOf == Strict([v \in 1 .. 256 |->
                            IF \E k \in 1 .. Len(table) : table[k][1] = v - 1
                            THEN CHOOSE k \in 1 .. Len(table) : table[k][1] = v - 1
                            ELSE 0])
        bits   == Flatten([i \in 1 .. Len(data) |-> codes[rankOf[data[i] + 1]]])
    IN  << Len(table) - 1 >>
        \o [i \in 1 .. 2 * Len(table) |-> table[(i + 1) \div 2][2 - (i % 2)]]
        \o Pack32(Len(data))
        \o PackBits(bits)

\* the code of table entry k shifted left to MaxCodeLen bits; it grows with k
LeftAligned(table, k) ==
    SumRange([j \in 1 .. k - 1 |-> Pow2(MaxCodeLen - table[j][2])], 1, k - 1)

\* the MaxCodeLen bits of data that start at bit p (1-based) of the bytes after
\* data[base]; bits past the end read as 0
Window(data, base, p) ==
    LET i   == base + ((p - 1) \div 8)
        off == (p - 1) % 8
        B(t) == IF i + t <= Len(data) THEN data[i + t] ELSE 0
    IN  (B(1) % Pow2(8 - off)) * Pow2(16 + off) + B(2) * Pow2(8 + off)
        + B(3) * Pow2(off) + (B(4) \div Pow2(8 - off))

\* the last entry of lo .. hi whose left-aligned code is at most w: the entry
\* whose code the window starts with
RECURSIVE Match(_, _, _, _)
Match(left, w, lo, hi) ==
    IF lo >= hi THEN lo
    ELSE LET mid == (lo + hi + 1) \div 2
         IN  IF left[mid] <= w THEN Match(left, w, mid, hi)
             ELSE Match(left, w, lo, mid - 1)

\* the number of symbols one level of DecodeRun hands to the level below
DecodeChunk == 8

\* n symbols decoded from bit pos on: [out |-> the symbols, pos |-> the bit
\* after them].  unit = 1 decodes symbol after symbol; a larger unit cuts the run
\* into pieces of unit symbols (the interpreter's stack does not allow one
\* recursion level per symbol).
RECURSIVE DecodeRun(_, _, _, _, _, _, _)
DecodeRun(data, base, table, left, pos, n, unit) ==
    IF n = 0 THEN [out |-> << >>, pos |-> pos]
    ELSE IF unit = 1
    THEN LET k    == Match(left, Window(data, base, pos), 1, Len(table))
             rest == DecodeRun(data, base, table, left, pos + table[k][2], n - 1, 1)
         IN  [out |-> << table[k][1] >> \o rest.out, pos |-> rest.pos]
    ELSE LET m     == Min(n, unit)
             first == DecodeRun(data, base, table, left, pos, m, unit \div DecodeChunk)
             rest  == DecodeRun(data, base, table, left, first.pos, n - m, unit)
         IN  [out |-> first.out \o rest.out, pos |-> rest.pos]

HACompressor_decompress(data) ==
    IF Len(data) = 0 THEN << >>
    ELSE
    LET nsym   == data[1] + 1
        table  == Strict([k \in 1 .. nsym |-> << data[2 * k], data[2 * k + 1] >>])
        count  == Unpack32(SubSeq(data, 2 * nsym + 2, 2 * nsym + 5))
        left   == Strict([k \in 1 .. nsym |-> LeftAligned(table, k)])
    IN  DecodeRun(data, 2 * nsym + 5, table, left, 1, count,
                  DecodeChunk * DecodeChunk * DecodeChunk * DecodeChunk).out

(***************************************************************************)
(* compressor/jpeg_compressor.py: the state                                *)
(***************************************************************************)
VARIABLES
    args,    \* the arguments of the JPEGCompressor(...) call
    img,     \* the RGB image given to compress: [w, h, data]
    codec,   \* the JPEGCompressor instance: configuration and precomputed tables
    pc,      \* where the construct / compress / decompress sequence stands
    enc,     \* the local variables of compress
    dec,     \* the local variables of decompress
    trace,   \* the stages executed so far, in order (history)
    unit     \* the module-level runs of BlockSplitter and ZigZag

vars == << args, img, codec, pc, enc, dec, trace, unit >>

\* struct.pack("<H", v): the two bytes in the little-endian order
Pack16_le(v) == IF v < 0 \/ v > 65535 THEN Raise ELSE Return(<< v % 256, v \div 256 >>)

\* struct.pack(">H", v): two bytes, big-endian; struct.error outside 0 .. 65535
Pack16(v) == IF v < 0 \/ v > 65535 THEN Raise ELSE Return(<< v \div 256, v % 256 >>)

\* struct.pack(">B", v): one byte; struct.error outside 0 .. 255
Pack8(v) == IF v < 0 \/ v > 255 THEN Raise ELSE Return(<< v >>)

\* struct.unpack(">H", b)
Unpack16(b) == b[1] * 256 + b[2]

\* one int16 as numpy's tobytes() writes it (little-endian, two's complement);
\* astype(np.int16) wraps modulo 2^16
Int16Bytes(v) == << (v % 65536) % 256, (v % 65536) \div 256 >>

\* np.frombuffer(..., dtype=np.uint16) of the two bytes lo, hi: the sign is lost
Int16Of_unsigned(lo, hi) == hi * 256 + lo

\* np.frombuffer(..., dtype=np.int16) of the two bytes lo, hi
Int16Of(lo, hi) ==
    LET u == hi * 256 + lo IN IF u >= 32768 THEN u - 65536 ELSE u

InInt16(v) == -32768 <= v /\ v <= 32767

\* a flat row-major buffer of a 2-D array: ndarray.tobytes()
ToBytes(arr) == Flatten(arr)

\* np.frombuffer(buf).reshape((rows, cols))
Reshape(buf, rows, cols) ==
    [y \in 1 .. rows |-> [x \in 1 .. cols |-> buf[(y - 1) * cols + x]]]

\* the constructor with BlockSplitter's check of the fill value left out
JPEGCompressor_init_fillUnchecked(quality, block_size, subsample_xy, fill_value) ==
    IF ~(0 <= quality /\ quality <= 100) THEN Raise
    ELSE IF block_size <= 0 THEN Raise
    ELSE IF subsample_xy[1] <= 0 \/ subsample_xy[2] <= 0 THEN Raise
    ELSE Return([quality      |-> quality,
                 block_size   |-> block_size,
                 sub_y        |-> subsample_xy[1],
                 sub_x        |-> subsample_xy[2],
                 fill_value   |-> fill_value,
                 D            |-> DctMatrix(block_size),
                 quant_tables |-> get_quant_tables(quality),
                 indices      |-> _generate_indices(block_size)])

\* JPEGCompressor.__init__: the instance, or Raise for the ValueError of the
\* constructor or of one of the modules it builds
JPEGCompressor_init(quality, block_size, subsample_xy, fill_value) ==
    IF ~(0 <= quality /\ quality <= 100) THEN Raise
    ELSE IF block_size <= 0 THEN Raise
    ELSE IF ~(0 <= fill_value /\ fill_value <= 255) THEN Raise
    ELSE IF subsample_xy[1] <= 0 \/ subsample_xy[2] <= 0 THEN Raise
    ELSE Return([quality      |-> quality,
                 block_size   |-> block_size,
                 sub_y        |-> subsample_xy[1],
                 sub_x        |-> subsample_xy[2],
                 fill_value   |-> fill_value,
                 D            |-> DctMatrix(block_size),
                 quant_tables |-> get_quant_tables(quality),
                 indices      |-> _generate_indices(block_size)])

NoCodec == [quality |-> 0, block_size |-> 0, sub_y |-> 0, sub_x |-> 0, fill_value |-> 0,
            D |-> << >>, quant_tables |-> << >>, indices |-> << >>]

NoMeans == [num |-> << >>, den |-> 1]

EncInit ==
    [width |-> 0, height |-> 0, rgb_bytes |-> << >>, ycbcr_bytes |-> << >>,
     Y |-> << >>, Cb |-> << >>, Cr |-> << >>, Cb_ds |-> NoMeans, Cr_ds |-> NoMeans,
     blocks_Y |-> << >>, blocks_Cb |-> << >>, blocks_Cr |-> << >>,
     w_cb |-> 0, h_cb |-> 0, w_cr |-> 0, h_cr |-> 0,
     plane |-> "Y", i |-> 0, C |-> << >>, Q |-> << >>,
     zz_Y |-> << >>, zz_Cb |-> << >>, zz_Cr |-> << >>,
     all_blocks |-> << >>, dc_vals |-> << >>, ac_vals |-> << >>,
     dc_diff |-> << >>, dc_bytes |-> << >>, ac_rle |-> << >>,
     combined |-> << >>, payload |-> << >>, header |-> << >>, out |-> << >>]

(***************************************************************************)
(* JPEGCompressor.compress, stage by stage                                 *)
(***************************************************************************)
\* compress with the header written before the Huffman stage has run
CompressStages_headerFirst ==
    << "begin", "colour", "downsample", "split", "dct", "quantize", "zigzag",
       "gather", "dcac", "dcdiff_rle", "concat", "header", "huffman" >>

\* the stages of compress in the order of its statements: the position pc
\* holds the stage about to run
CompressStages ==
    << "begin", "colour", "downsample", "split", "dct", "quantize", "zigzag",
       "gather", "dcac", "dcdiff_rle", "concat", "huffman", "header" >>

\* the stages of decompress in the order of its statements
DecompressStages ==
    << "header_parse", "huffman_decode", "region_split", "dc_rle_decode", "rebuild",
       "zigzag_decode", "dequantize", "idct", "merge", "upsample", "colour_inverse" >>

\* the position after stage of stages; end after the last one
StageAfter(stages, stage, end) ==
    LET k == CHOOSE i \in 1 .. Len(stages) : stages[i] = stage
    IN  IF k = Len(stages) THEN end ELSE stages[k + 1]

AfterCompress(stage) == StageAfter(CompressStages, stage, "compressed")

AfterDecompress(stage) == StageAfter(DecompressStages, stage, "done")

\* an exception leaves compress: no container is returned
CompressRaises(stage) ==
    /\ pc' = "compress_raised"
    /\ trace' = Append(trace, stage)
    /\ UNCHANGED << args, img, codec, enc, dec, unit >>

\* the step to the next stage of compress with the locals updated
CompressStep(stage, next, newEnc) ==
    /\ pc' = next
    /\ enc' = newEnc
    /\ trace' = Append(trace, stage)
    /\ UNCHANGED << args, img, codec, dec, unit >>

\* the step a stage of compress takes on the result r of its calls: the
\* exception leaves compress, or the locals r.value go to the next stage
CompressTry(stage, next, r) ==
    IF r.raised THEN CompressRaises(stage) ELSE CompressStep(stage, next, r.value)

\* channel c (1: Y, 2: Cb, 3: Cr) of the interleaved buffer, as a 2-D array
Channel(buf, width, height, c) ==
    [y \in 1 .. height |-> [x \in 1 .. width |-> buf[3 * ((y - 1) * width + (x - 1)) + c]]]

\* np.round(means).astype(np.uint8) of a plane of block means
RoundMeans(ds) ==
    [y \in 1 .. Len(ds.num) |-> [x \in 1 .. Len(ds.num[y]) |->
        RoundHalfEven(ds.num[y][x], ds.den) % 256]]

\* the JPEGCompressor(...) call
Construct ==
    /\ pc = "new"
    /\ IF JPEGCompressor_init(args.quality, args.block_size,
                              args.subsample_xy, args.fill_value).raised
       THEN /\ pc' = "config_error"
            /\ UNCHANGED codec
       ELSE /\ pc' = "begin"
            /\ codec' = JPEGCompressor_init(args.quality, args.block_size,
                                            args.subsample_xy, args.fill_value).value
    /\ trace' = Append(trace, "construct")
    /\ UNCHANGED << args, img, enc, dec, unit >>

\* 1. RGB -> bytes
E_Begin ==
    /\ pc = "begin"
    /\ CompressStep("begin", AfterCompress("begin"),
                    [enc EXCEPT !.width = img.w, !.height = img.h, !.rgb_bytes = img.data])

\* 2. RGB -> YCbCr
E_Colour ==
    /\ pc = "colour"
    /\ CompressTry("colour", AfterCompress("colour"),
            LET r == RGBToYCbCr_convert(enc.rgb_bytes)
            IN  IF r.raised THEN Raise
                ELSE Return([enc EXCEPT
                        !.ycbcr_bytes = r.value,
                        !.Y  = Channel(r.value, enc.width, enc.height, 1),
                        !.Cb = Channel(r.value, enc.width, enc.height, 2),
                        !.Cr = Channel(r.value, enc.width, enc.height, 3)]))

\* 3. Downsampling
E_Downsample ==
    /\ pc = "downsample"
    /\ CompressStep("downsample", AfterCompress("downsample"),
            [enc EXCEPT
                !.Cb_ds = Downsampler_downsample(codec.sub_y, codec.sub_x, codec.fill_value, enc.Cb),
                !.Cr_ds = Downsampler_downsample(codec.sub_y, codec.sub_x, codec.fill_value, enc.Cr)])

\* 4. Split into blocks.  Of a plane without samples no tile is cut, and the
\* loops of the three _process calls then have nothing to run over.
E_Split ==
    /\ pc = "split"
    /\ CompressTry("split",
            IF enc.width = 0 \/ enc.height = 0 THEN "gather" ELSE AfterCompress("split"),
            LET h_cb  == Len(enc.Cb_ds.num)
                w_cb  == IF h_cb = 0 THEN 0 ELSE Len(enc.Cb_ds.num[1])
                h_cr  == Len(enc.Cr_ds.num)
                w_cr  == IF h_cr = 0 THEN 0 ELSE Len(enc.Cr_ds.num[1])
                bY    == BlockSplitter_convert(codec.block_size, codec.fill_value,
                                               ToBytes(enc.Y), enc.width, enc.height)
                bCb   == BlockSplitter_convert(codec.block_size, codec.fill_value,
                                               ToBytes(RoundMeans(enc.Cb_ds)), w_cb, h_cb)
                bCr   == BlockSplitter_convert(codec.block_size, codec.fill_value,
                                               ToBytes(RoundMeans(enc.Cr_ds)), w_cr, h_cr)
            IN  IF bY.raised \/ bCb.raised \/ bCr.raised THEN Raise
                ELSE Return([enc EXCEPT
                        !.blocks_Y = bY.value, !.blocks_Cb = bCb.value,
                        !.blocks_Cr = bCr.value,
                        !.w_cb = w_cb, !.h_cb = h_cb, !.w_cr = w_cr, !.h_cr = h_cr,
                        !.plane = "Y", !.i = 1]))

\* the tiles _process is working on
BlocksOfPlane == CASE enc.plane = "Y"  -> enc.blocks_Y
                   [] enc.plane = "Cb" -> enc.blocks_Cb
                   [] enc.plane = "Cr" -> enc.blocks_Cr

\* the table _process was called with: qt_Y for Y, qt_C for Cb and Cr
TableOfPlane(plane, tables) == IF plane = "Y" THEN tables[1] ELSE tables[2]

\* 5. _process, tile enc.i of plane enc.plane: the level shift and the DCT
E_Dct ==
    /\ pc = "dct"
    /\ CompressTry("dct", AfterCompress("dct"),
            LET buf == BlocksOfPlane[enc.i]
                mat == [y \in 1 .. codec.block_size |-> [x \in 1 .. codec.block_size |->
                          ToFix(buf[(y - 1) * codec.block_size + x] - 128)]]
                r   == DCT2D_forward(codec.block_size, mat)
            IN  IF r.raised THEN Raise ELSE Return([enc EXCEPT !.C = r.value]))

\* 5. _process: Quantizer.quantize
E_Quantize ==
    /\ pc = "quantize"
    /\ CompressTry("quantize", AfterCompress("quantize"),
            LET r == Quantizer_quantize(enc.C, TableOfPlane(enc.plane, codec.quant_tables))
            IN  IF r.raised THEN Raise ELSE Return([enc EXCEPT !.Q = r.value]))

\* 5. _process: ZigZag.encode, out.append, and the loop's next tile; after the
\* last tile of a plane _process is called for the next plane
E_ZigZag ==
    /\ pc = "zigzag"
    /\ CompressTry("zigzag",
            IF enc.i = Len(BlocksOfPlane) /\ enc.plane = "Cr"
            THEN AfterCompress("zigzag") ELSE "dct",
            LET r    == ZigZag_encode(codec.block_size, codec.indices, enc.Q)
                last == enc.i = Len(BlocksOfPlane)
            IN  IF r.raised THEN Raise
                ELSE Return([enc EXCEPT
                        !.zz_Y  = IF enc.plane = "Y"  THEN Append(@, r.value) ELSE @,
                        !.zz_Cb = IF enc.plane = "Cb" THEN Append(@, r.value) ELSE @,
                        !.zz_Cr = IF enc.plane = "Cr" THEN Append(@, r.value) ELSE @,
                        !.i     = IF last THEN 1 ELSE @ + 1,
                        !.plane = IF ~last THEN @
                                  ELSE IF @ = "Y" THEN "Cb" ELSE "Cr"]))

\* 6. Gather all
E_Gather ==
    /\ pc = "gather"
    /\ CompressStep("gather", AfterCompress("gather"),
                    [enc EXCEPT !.all_blocks = enc.zz_Y \o enc.zz_Cb \o enc.zz_Cr])

\* 7. DC & AC split
E_DcAc ==
    /\ pc = "dcac"
    /\ CompressStep("dcac", AfterCompress("dcac"),
            [enc EXCEPT
                !.dc_vals = [k \in 1 .. Len(enc.all_blocks) |-> enc.all_blocks[k][1]],
                !.ac_vals = Flatten([k \in 1 .. Len(enc.all_blocks) |->
                                Flatten([t \in 1 .. Len(enc.all_blocks[k]) - 1 |->
                                    Int16Bytes(enc.all_blocks[k][t + 1])])])])

\* 8. DC diff + RLE AC.  np.array(dc_diff, dtype=np.int16) raises OverflowError
\* on a difference outside int16.
E_DcDiffRle ==
    /\ pc = "dcdiff_rle"
    /\ CompressTry("dcdiff_rle", AfterCompress("dcdiff_rle"),
            LET r == DCDifferentialCodec_encode(enc.dc_vals)
            IN  IF r.raised THEN Raise
                ELSE IF \E k \in 1 .. Len(r.value) : ~InInt16(r.value[k]) THEN Raise
                ELSE Return([enc EXCEPT
                        !.dc_diff  = r.value,
                        !.dc_bytes = Flatten([k \in 1 .. Len(r.value) |->
                                                Int16Bytes(r.value[k])]),
                        !.ac_rle   = RLECompressor_compress(enc.ac_vals)]))

\* 9. the argument of huffman.compress: dc_bytes + ac_rle
E_Concat ==
    /\ pc = "concat"
    /\ CompressStep("concat", AfterCompress("concat"), [enc EXCEPT !.combined = enc.dc_bytes \o enc.ac_rle])

\* 9. Huffman
E_Huffman ==
    /\ pc = "huffman"
    /\ CompressStep("huffman", AfterCompress("huffman"),
                    [enc EXCEPT !.payload = HACompressor_compress(enc.combined)])

\* the header with height packed before width
PackHeader_swapped(width, height, block_size, quality, w_cb, h_cb) ==
    LET w  == Pack16(width)
        h  == Pack16(height)
        bs == Pack8(block_size)
        q  == Pack8(quality)
        cw == Pack16(w_cb)
        ch == Pack16(h_cb)
    IN  IF w.raised \/ h.raised \/ bs.raised \/ q.raised \/ cw.raised \/ ch.raised
        THEN Raise
        ELSE Return(h.value \o w.value \o bs.value \o q.value \o cw.value \o ch.value)

\* the header of step 10: struct.pack(">HHBB", width, height, block_size,
\* quality) + struct.pack(">HH", w_cb, h_cb); Raise is the struct.error
PackHeader(width, height, block_size, quality, w_cb, h_cb) ==
    LET w  == Pack16(width)
        h  == Pack16(height)
        bs == Pack8(block_size)
        q  == Pack8(quality)
        cw == Pack16(w_cb)
        ch == Pack16(h_cb)
    IN  IF w.raised \/ h.raised \/ bs.raised \/ q.raised \/ cw.raised \/ ch.raised
        THEN Raise
        ELSE Return(w.value \o h.value \o bs.value \o q.value \o cw.value \o ch.value)

\* 10. Header, and the return of header + payload
E_Header ==
    /\ pc = "header"
    /\ CompressTry("header", AfterCompress("header"),
            LET header == PackHeader(enc.width, enc.height, codec.block_size,
                                     codec.quality, enc.w_cb, enc.h_cb)
            IN  IF header.raised THEN Raise
                ELSE Return([enc EXCEPT !.header = header.value,
                                        !.out = header.value \o enc.payload]))

Compress ==
    \/ E_Begin \/ E_Colour \/ E_Downsample \/ E_Split
    \/ E_Dct \/ E_Quantize \/ E_ZigZag
    \/ E_Gather \/ E_DcAc \/ E_DcDiffRle \/ E_Concat \/ E_Huffman \/ E_Header

(***************************************************************************)
(* JPEGCompressor.decompress, stage by stage                               *)
(***************************************************************************)
DecInit ==
    [data |-> << >>, header |-> << >>, payload |-> << >>,
     w |-> 0, h |-> 0, bs |-> 0, q |-> 0, ds_w |-> 0, ds_h |-> 0,
     quant_tables |-> << >>, D |-> << >>, indices |-> << >>,
     combined |-> << >>, nY |-> 0, nC |-> 0, total |-> 0,
     dc_bytes |-> << >>, ac_rle |-> << >>,
     dc_diff |-> << >>, dc_vals |-> << >>, ac_vals |-> << >>,
     all_blocks |-> << >>, plane |-> "Y", i |-> 0, Q |-> << >>, C |-> << >>,
     out_Y |-> << >>, out_Cb |-> << >>, out_Cr |-> << >>,
     Yc |-> << >>, Cbc |-> << >>, Crc |-> << >>, Cb_up |-> << >>, Cr_up |-> << >>,
     merged |-> << >>, rgb |-> << >>, img |-> [w |-> 0, h |-> 0, data |-> << >>]]

\* an exception leaves decompress: no image is returned
DecompressRaises(stage) ==
    /\ pc' = "decompress_raised"
    /\ trace' = Append(trace, stage)
    /\ UNCHANGED << args, img, codec, enc, dec, unit >>

\* a step of decompress that keeps, at the header, the header's quality and
\* its tables in the instance
DecompressStep_reinitialising(stage, next, newDec) ==
    /\ pc' = next
    /\ dec' = newDec
    /\ trace' = Append(trace, stage)
    /\ codec' = IF stage = "header_parse"
                THEN [codec EXCEPT !.quality = newDec.q,
                                   !.quant_tables = get_quant_tables(newDec.q)]
                ELSE codec
    /\ UNCHANGED << args, img, enc, unit >>

\* the step to the next stage of decompress with the locals updated
DecompressStep(stage, next, newDec) ==
    /\ pc' = next
    /\ dec' = newDec
    /\ trace' = Append(trace, stage)
    /\ UNCHANGED << args, img, codec, enc, unit >>

\* the step a stage of decompress takes on the result r of its calls
DecompressTry(stage, next, r) ==
    IF r.raised THEN DecompressRaises(stage) ELSE DecompressStep(stage, next, r.value)

\* the block sizes DCT2D is modelled for
ModelledBlockSizes == {1, 2, 4, 8}

\* the fields of the 10 header bytes: struct.unpack(">HHBB", header[:6]) and
\* struct.unpack(">HH", header[-4:])
ParseHeader(header) ==
    [w    |-> Unpack16(SubSeq(header, 1, 2)),
     h    |-> Unpack16(SubSeq(header, 3, 4)),
     bs   |-> header[5],
     q    |-> header[6],
     ds_w |-> Unpack16(SubSeq(header, Len(header) - 3, Len(header) - 2)),
     ds_h |-> Unpack16(SubSeq(header, Len(header) - 1, Len(header)))]

\* the tile counts with the chroma count taken from the full resolution
TileCounts_fullres(w, h, bs, ds_w, ds_h) ==
    LET nY == ((w + bs - 1) \div bs) * ((h + bs - 1) \div bs)
    IN  [nY |-> nY, nC |-> nY, total |-> nY + 2 * nY]

\* the tile counts of step 3 of decompress: [nY, nC, total]
TileCounts(w, h, bs, ds_w, ds_h) ==
    LET byY == (w + bs - 1) \div bs
        bxY == (h + bs - 1) \div bs
        nY  == byY * bxY
        byC == (ds_w + bs - 1) \div bs
        bxC == (ds_h + bs - 1) \div bs
        nC  == byC * bxC
    IN  [nY |-> nY, nC |-> nC, total |-> nY + 2 * nC]

\* 1. header parse, and 2. the modules rebuilt from the header's block size and
\* quality.  struct.unpack raises on fewer than 10 bytes, DCT2D on block size 0.
D_Header ==
    /\ pc = "compressed"
    /\ DecompressTry("header_parse", AfterDecompress("header_parse"),
            LET data    == enc.out
                hdr_sz  == 10
                header  == Slice(data, 0, hdr_sz)
                payload == Slice(data, hdr_sz, Len(data))
                f       == ParseHeader(header)
            IN  IF Len(header) < hdr_sz THEN Raise
                ELSE IF f.bs \notin ModelledBlockSizes THEN Raise
                ELSE Return([DecInit EXCEPT
                        !.data = data, !.header = header, !.payload = payload,
                        !.w = f.w, !.h = f.h, !.bs = f.bs, !.q = f.q,
                        !.ds_w = f.ds_w, !.ds_h = f.ds_h,
                        !.quant_tables = get_quant_tables(f.q),
                        !.D = DctMatrix(f.bs),
                        !.indices = _generate_indices(f.bs)]))

\* 3. Huffman decoding
D_Huffman ==
    /\ pc = "huffman_decode"
    /\ DecompressStep("huffman_decode", AfterDecompress("huffman_decode"),
                      [dec EXCEPT !.combined = HACompressor_decompress(dec.payload)])

\* 3. the tile counts from the header and the DC / AC regions
D_RegionSplit ==
    /\ pc = "region_split"
    /\ DecompressStep("region_split", AfterDecompress("region_split"),
            LET n == TileCounts(dec.w, dec.h, dec.bs, dec.ds_w, dec.ds_h)
                dc_bytes_len == n.total * 2
            IN  [dec EXCEPT !.nY = n.nY, !.nC = n.nC, !.total = n.total,
                            !.dc_bytes = Slice(dec.combined, 0, dc_bytes_len),
                            !.ac_rle = Slice(dec.combined, dc_bytes_len, Len(dec.combined))])

\* 4. DC diff + RLE AC.  np.frombuffer raises on an odd number of bytes,
\* dc_codec.decode on no value at all.
D_DcRleDecode ==
    /\ pc = "dc_rle_decode"
    /\ DecompressTry("dc_rle_decode", AfterDecompress("dc_rle_decode"),
            LET dc_diff == [k \in 1 .. Len(dec.dc_bytes) \div 2 |->
                              Int16Of(dec.dc_bytes[2 * k - 1], dec.dc_bytes[2 * k])]
                r       == DCDifferentialCodec_decode(dc_diff)
            IN  IF Len(dec.dc_bytes) % 2 # 0 THEN Raise
                ELSE IF r.raised THEN Raise
                ELSE Return([dec EXCEPT
                        !.dc_diff = dc_diff, !.dc_vals = r.value,
                        !.ac_vals = RLECompressor_decompress(dec.ac_rle)]))

\* 5. the zigzag arrays rebuilt: blk[0] = dc_vals[i], blk[1:] = the tile's AC
\* values.  It raises on a missing DC value (IndexError), on a DC value an
\* int16 cannot hold, on an odd chunk, and on a chunk of the wrong length,
\* except that numpy broadcasts a chunk of one value to the whole of blk[1:].
D_Rebuild ==
    /\ pc = "rebuild"
    /\ DecompressTry("rebuild", IF dec.total = 0 THEN "merge" ELSE AfterDecompress("rebuild"),
            LET ac_block_bytes == (dec.bs * dec.bs - 1) * 2
                \* the int16 values of ac_vals[off : off + ac_block_bytes] for tile i
                zz_ac == [i \in 1 .. dec.total |->
                            LET chunk == Slice(dec.ac_vals, (i - 1) * ac_block_bytes,
                                               i * ac_block_bytes)
                            IN  IF Len(chunk) % 2 # 0 THEN Raise
                                ELSE Return([k \in 1 .. Len(chunk) \div 2 |->
                                        Int16Of(chunk[2 * k - 1], chunk[2 * k])])]
                bad(i)   == \/ i > Len(dec.dc_vals)
                            \/ ~InInt16(dec.dc_vals[i])
                            \/ zz_ac[i].raised
                            \/ /\ Len(zz_ac[i].value) # dec.bs * dec.bs - 1
                               /\ Len(zz_ac[i].value) # 1
                blk(i)   == [k \in 1 .. dec.bs * dec.bs |->
                                IF k = 1 THEN dec.dc_vals[i]
                                ELSE IF Len(zz_ac[i].value) = 1 THEN zz_ac[i].value[1]
                                ELSE zz_ac[i].value[k - 1]]
            IN  IF \E i \in 1 .. dec.total : bad(i) THEN Raise
                ELSE Return([dec EXCEPT
                        !.all_blocks = [i \in 1 .. dec.total |-> blk(i)],
                        !.plane = IF dec.nY > 0 THEN "Y" ELSE "Cb",
                        !.i = 1]))

\* the zigzag arrays _restore is working on
RestoreBlocks ==
    CASE dec.plane = "Y"  -> Slice(dec.all_blocks, 0, dec.nY)
      [] dec.plane = "Cb" -> Slice(dec.all_blocks, dec.nY, dec.nY + dec.nC)
      [] dec.plane = "Cr" -> Slice(dec.all_blocks, dec.nY + dec.nC, dec.nY + 2 * dec.nC)

\* 6. _restore, tile dec.i of plane dec.plane: ZigZag.decode
D_ZigZag ==
    /\ pc = "zigzag_decode"
    /\ DecompressTry("zigzag_decode", AfterDecompress("zigzag_decode"),
            LET r == ZigZag_decode(dec.bs, dec.indices, RestoreBlocks[dec.i])
            IN  IF r.raised THEN Raise ELSE Return([dec EXCEPT !.Q = r.value]))

\* 6. _restore: Quantizer.dequantize
D_Dequantize ==
    /\ pc = "dequantize"
    /\ DecompressTry("dequantize", AfterDecompress("dequantize"),
            LET r == Quantizer_dequantize(dec.Q, TableOfPlane(dec.plane, dec.quant_tables))
            IN  IF r.raised THEN Raise ELSE Return([dec EXCEPT !.C = r.value]))

\* np.clip(mat, 0, 255).astype(np.uint8) of a Fix sample: the fraction is dropped
ClipToByte(v) == Clip(v, 0, ToFix(255)) \div FixOne

\* 6. _restore: dct.inverse(C) + 128, the clip and the cast to bytes,
\* mats.append, and the loop's next tile or the next plane's _restore
D_Idct ==
    /\ pc = "idct"
    /\ DecompressTry("idct",
            IF dec.i = Len(RestoreBlocks) /\ dec.plane = "Cr"
            THEN AfterDecompress("idct") ELSE "zigzag_decode",
            LET r    == DCT2D_inverse(dec.bs, dec.C)
                mat  == [y \in 1 .. dec.bs |-> [x \in 1 .. dec.bs |->
                           ClipToByte(r.value[y][x] + ToFix(128))]]
                last == dec.i = Len(RestoreBlocks)
            IN  IF r.raised THEN Raise
                ELSE Return([dec EXCEPT
                        !.out_Y  = IF dec.plane = "Y"  THEN Append(@, mat) ELSE @,
                        !.out_Cb = IF dec.plane = "Cb" THEN Append(@, mat) ELSE @,
                        !.out_Cr = IF dec.plane = "Cr" THEN Append(@, mat) ELSE @,
                        !.i      = IF last THEN 1 ELSE @ + 1,
                        !.plane  = IF ~last THEN @
                                   ELSE IF @ = "Y" THEN "Cb" ELSE "Cr"]))

\* merge of step 7: splitter.inverse on the tiles' bytes, reshaped to (oh, ow)
Merge(bs, fill_value, blocks, ow, oh) ==
    LET r == BlockSplitter_inverse(bs, fill_value,
                                   [k \in 1 .. Len(blocks) |-> ToBytes(blocks[k])], ow, oh)
    IN  IF r.raised THEN Raise ELSE Return(Reshape(r.value, oh, ow))

\* 7. Merge
D_Merge ==
    /\ pc = "merge"
    /\ DecompressTry("merge", AfterDecompress("merge"),
            LET Yc  == Merge(dec.bs, codec.fill_value, dec.out_Y, dec.w, dec.h)
                Cbc == Merge(dec.bs, codec.fill_value, dec.out_Cb, dec.ds_w, dec.ds_h)
                Crc == Merge(dec.bs, codec.fill_value, dec.out_Cr, dec.ds_w, dec.ds_h)
            IN  IF Yc.raised \/ Cbc.raised \/ Crc.raised THEN Raise
                ELSE Return([dec EXCEPT !.Yc = Yc.value, !.Cbc = Cbc.value,
                                        !.Crc = Crc.value]))

\* 7. upsample.  Pillow refuses an image without pixels.
D_Upsample ==
    /\ pc = "upsample"
    /\ DecompressTry("upsample", AfterDecompress("upsample"),
            IF dec.w = 0 \/ dec.h = 0 \/ dec.ds_w = 0 \/ dec.ds_h = 0 THEN Raise
            ELSE Return([dec EXCEPT
                    !.Cb_up = Downsampler_upsample(dec.Cbc, dec.h, dec.w),
                    !.Cr_up = Downsampler_upsample(dec.Crc, dec.h, dec.w)]))

\* 8. Final RGB: np.stack(..., axis=2).tobytes(), RGBToYCbCr.inverse and
\* Image.frombytes("RGB", (w, h), rgb)
D_ColourInverse ==
    /\ pc = "colour_inverse"
    /\ DecompressTry("colour_inverse", AfterDecompress("colour_inverse"),
            LET merged == Flatten([i \in 1 .. dec.w * dec.h |->
                             LET y == ((i - 1) \div dec.w) + 1
                                 x == ((i - 1) % dec.w) + 1
                             IN  << dec.Yc[y][x], dec.Cb_up[y][x], dec.Cr_up[y][x] >>])
                r      == RGBToYCbCr_inverse(merged)
            IN  IF r.raised THEN Raise
                ELSE Return([dec EXCEPT
                        !.merged = merged, !.rgb = r.value,
                        !.img = [w |-> dec.w, h |-> dec.h, data |-> r.value]]))

Decompress ==
    \/ D_Header \/ D_Huffman \/ D_RegionSplit \/ D_DcRleDecode \/ D_Rebuild
    \/ D_ZigZag \/ D_Dequantize \/ D_Idct
    \/ D_Merge \/ D_Upsample \/ D_ColourInverse

(***************************************************************************)
(* The inputs of the runs.                                                 *)
(***************************************************************************)
\* the quality levels: those main.py runs, and the spec's quality 50
Qualities == {0, 50, 100}

BlockSizes == {1, 4, 8}

\* (sub_y, sub_x)
Subsamples == { << 2, 2 >>, << 1, 2 >> }

FillValues == {0, 128}

\* arguments the constructor rejects
BadArgs ==
    { [quality |-> 101, block_size |-> 8, subsample_xy |-> << 2, 2 >>, fill_value |-> 0],
      [quality |-> -1,  block_size |-> 8, subsample_xy |-> << 2, 2 >>, fill_value |-> 0],
      [quality |-> 50,  block_size |-> 0, subsample_xy |-> << 2, 2 >>, fill_value |-> 0],
      [quality |-> 50,  block_size |-> 8, subsample_xy |-> << 0, 2 >>, fill_value |-> 0],
      [quality |-> 50,  block_size |-> 8, subsample_xy |-> << 2, 2 >>, fill_value |-> 256],
      [quality |-> 50,  block_size |-> -8, subsample_xy |-> << 2, 2 >>, fill_value |-> 0],
      [quality |-> 50,  block_size |-> 8, subsample_xy |-> << 2, -1 >>, fill_value |-> 0],
      [quality |-> 50,  block_size |-> 8, subsample_xy |-> << 2, 2 >>, fill_value |-> -1] }

GoodArgs ==
    [quality : Qualities, block_size : BlockSizes,
     subsample_xy : Subsamples, fill_value : FillValues]

\* image widths and heights: one pixel, one tile, and past a tile edge
Dims == {1, 8, MaxDim}

\* pixel (x, y), 0-based, of the test images: the flat gray of the spec's
\* scenario and a colour ramp
Pixel(kind, x, y) ==
    IF kind = "gray" THEN << 128, 128, 128 >>
    ELSE << (40 * x + 11 * y) % 256, (200 + 233 * y + 7 * x) % 256, (31 * x * y + 5) % 256 >>

Kinds == {"gray", "ramp"}

MakeImage(w, h, kind) ==
    [w |-> w, h |-> h,
     data |-> Flatten([i \in 1 .. w * h |-> Pixel(kind, (i - 1) % w, (i - 1) \div w)])]

Images == { MakeImage(w, h, kind) : w \in Dims, h \in Dims, kind \in Kinds }

\* the constructor's defaults: JPEGCompressor()
DefaultArgs == [quality |-> 75, block_size |-> 8, subsample_xy |-> << 2, 2 >>, fill_value |-> 0]

\* a width and height that need both bytes of a 16-bit header field
WideDim == 258

WideImages == { MakeImage(WideDim, 1, "ramp"), MakeImage(1, WideDim, "ramp") }

\* images without a pixel: 0 x 0 and 0 wide, 3 high
EmptyImages == { MakeImage(0, 0, "gray"), MakeImage(0, 3, "gray") }

\* no module-level run
NoUnit == [kind |-> "none"]

Init ==
    /\ \/ args \in GoodArgs \cup BadArgs /\ img \in Images \cup EmptyImages
       \/ args = DefaultArgs /\ img \in WideImages
    /\ codec = NoCodec
    /\ pc = "new"
    /\ enc = EncInit
    /\ dec = DecInit
    /\ trace = << >>
    /\ unit = NoUnit

Next == Construct \/ Compress \/ Decompress

Spec == Init /\ [][Next]_vars

(***************************************************************************)
(* functions/blocks.py run on its own, as its self-test does: a splitter   *)
(* is built, a plane is split, the tiles are merged.                       *)
(***************************************************************************)
\* the pipeline variables while a module runs on its own
PipelineIdle ==
    /\ args = DefaultArgs
    /\ img = MakeImage(1, 1, "gray")
    /\ codec = NoCodec
    /\ pc = "unit"
    /\ enc = EncInit
    /\ dec = DecInit
    /\ trace = << >>

\* the self-test's buffer 0, 1, 2, ... (seed 0), or the same counted from seed
TestPlane(width, height, seed) == [i \in 1 .. width * height |-> (i - 1 + seed) % 256]

PlaneSeeds == {0, 200}

PlaneFills == {0, 255}

InitBlocks ==
    /\ PipelineIdle
    /\ unit \in { [kind |-> "blocks", pc |-> "convert",
                   block_size |-> n, fill_value |-> f, width |-> w, height |-> h,
                   data |-> TestPlane(w, h, seed),
                   blocks |-> << >>, handed |-> << >>, result |-> << >>,
                   raised |-> FALSE] :
                  n \in 1 .. MaxN, f \in PlaneFills, w \in 1 .. MaxPlane,
                  h \in 1 .. MaxPlane, seed \in PlaneSeeds }

\* blocks = splitter.convert(original_data, width, height)
B_Convert ==
    /\ unit.kind = "blocks" /\ unit.pc = "convert"
    /\ unit' = IF BlockSplitter_convert(unit.block_size, unit.fill_value, unit.data,
                                        unit.width, unit.height).raised
               THEN [unit EXCEPT !.pc = "end", !.raised = TRUE]
               ELSE [unit EXCEPT !.pc = "inverse",
                        !.blocks = BlockSplitter_convert(unit.block_size, unit.fill_value,
                                        unit.data, unit.width, unit.height).value]
    /\ UNCHANGED << args, img, codec, pc, enc, dec, trace >>

\* reconstructed = splitter.inverse(blocks, width, height)
B_Inverse ==
    /\ unit.kind = "blocks" /\ unit.pc = "inverse"
    /\ unit' = IF BlockSplitter_inverse(unit.block_size, unit.fill_value, unit.blocks,
                                        unit.width, unit.height).raised
               THEN [unit EXCEPT !.pc = "end", !.raised = TRUE]
               ELSE [unit EXCEPT !.pc = "end",
                        !.result = BlockSplitter_inverse(unit.block_size, unit.fill_value,
                                        unit.blocks, unit.width, unit.height).value]
    /\ UNCHANGED << args, img, codec, pc, enc, dec, trace >>

\* splitter.inverse(tiles, width, height) with one tile too few or one too many
B_InverseMiscounted ==
    /\ unit.kind = "blocks" /\ unit.pc = "inverse"
    /\ \E tiles \in { SubSeq(unit.blocks, 1, Len(unit.blocks) - 1),
                      Append(unit.blocks, unit.blocks[1]) } :
          unit' = IF BlockSplitter_inverse(unit.block_size, unit.fill_value, tiles,
                                           unit.width, unit.height).raised
                  THEN [unit EXCEPT !.pc = "end_miscounted", !.handed = tiles,
                                    !.raised = TRUE]
                  ELSE [unit EXCEPT !.pc = "end_miscounted", !.handed = tiles,
                           !.result = BlockSplitter_inverse(unit.block_size,
                                           unit.fill_value, tiles,
                                           unit.width, unit.height).value]
    /\ UNCHANGED << args, img, codec, pc, enc, dec, trace >>

NextBlocks == B_Convert \/ B_Inverse \/ B_InverseMiscounted

SpecBlocks == InitBlocks /\ [][NextBlocks]_vars

(***************************************************************************)
(* functions/zigzag.py run on its own, as its self-test does: a scanner is *)
(* built, a tile is encoded, the sequence is decoded.                      *)
(***************************************************************************)
\* the tile of the self-test
TestBlock ==
    << << 1, 2, 6, 7 >>, << 3, 5, 8, 13 >>, << 4, 9, 12, 14 >>, << 10, 11, 15, 16 >> >>

\* an N x N tile of different values, some negative
TestTile(N, seed) ==
    [i \in 1 .. N |-> [j \in 1 .. N |-> seed * ((i - 1) * N + j) - 40 * (seed - 1)]]

\* the number of test tiles per block size
MaxSeed == 6

\* the block sizes of the runs: the small ones and the codec's 8
ZigZagSizes == (1 .. MaxN) \cup {8}

InitZigZag ==
    /\ PipelineIdle
    /\ unit \in { [kind |-> "zigzag", pc |-> "construct", block_size |-> t[1],
                   indices |-> << >>, block |-> t[2],
                   flat |-> << >>, result |-> << >>, raised |-> FALSE] :
                  t \in { << n, TestTile(n, seed) >> : n \in ZigZagSizes, seed \in 1 .. MaxSeed }
                        \cup { << 4, TestBlock >> } }

\* zz = ZigZag(block_size=N)
Z_Construct ==
    /\ unit.kind = "zigzag" /\ unit.pc = "construct"
    /\ unit' = IF unit.block_size <= 0
               THEN [unit EXCEPT !.pc = "end", !.raised = TRUE]
               ELSE [unit EXCEPT !.pc = "encode",
                                 !.indices = _generate_indices(unit.block_size)]
    /\ UNCHANGED << args, img, codec, pc, enc, dec, trace >>

\* flat = zz.encode(test_block)
Z_Encode ==
    /\ unit.kind = "zigzag" /\ unit.pc = "encode"
    /\ unit' = IF ZigZag_encode(unit.block_size, unit.indices, unit.block).raised
               THEN [unit EXCEPT !.pc = "end", !.raised = TRUE]
               ELSE [unit EXCEPT !.pc = "decode",
                        !.flat = ZigZag_encode(unit.block_size, unit.indices,
                                               unit.block).value]
    /\ UNCHANGED << args, img, codec, pc, enc, dec, trace >>

\* restored = zz.decode(flat)
Z_Decode ==
    /\ unit.kind = "zigzag" /\ unit.pc = "decode"
    /\ unit' = IF ZigZag_decode(unit.block_size, unit.indices, unit.flat).raised
               THEN [unit EXCEPT !.pc = "end", !.raised = TRUE]
               ELSE [unit EXCEPT !.pc = "end",
                        !.result = ZigZag_decode(unit.block_size, unit.indices,
                                                 unit.flat).value]
    /\ UNCHANGED << args, img, codec, pc, enc, dec, trace >>

NextZigZag == Z_Construct \/ Z_Encode \/ Z_Decode

SpecZigZag == InitZigZag /\ [][NextZigZag]_vars

(***************************************************************************)
(* functions/DCDifferentialCodec.py run on its own, as its self-test does: *)
(* a sequence is encoded, the differences are decoded.                     *)
(***************************************************************************)
\* the sequence of the self-test
TestDc == << 100, 102, 98, 105, 105, 110 >>

\* the values of the other sequences
DcSamples == {-1024, 0, 3}

\* the length of the longest of the other sequences
MaxDcLen == 4

\* all sequences over DcSamples of length n
DcSeqs(n) == [1 .. n -> DcSamples]

InitDc ==
    /\ PipelineIdle
    /\ unit \in { [kind |-> "dc", pc |-> "encode", dc_coeffs |-> s,
                   diffs |-> << >>, result |-> << >>, raised |-> FALSE] :
                  s \in UNION { DcSeqs(n) : n \in 0 .. MaxDcLen } \cup { TestDc } }
            \cup
            \* DCDifferentialCodec.decode called on its own, with no differences
            { [kind |-> "dc", pc |-> "decode_only", dc_coeffs |-> << >>,
               diffs |-> << >>, result |-> << >>, raised |-> FALSE] }

\* diffs = DCDifferentialCodec.encode(original_dc)
DC_Encode ==
    /\ unit.kind = "dc" /\ unit.pc = "encode"
    /\ unit' = IF DCDifferentialCodec_encode(unit.dc_coeffs).raised
               THEN [unit EXCEPT !.pc = "end", !.raised = TRUE]
               ELSE [unit EXCEPT !.pc = "decode",
                        !.diffs = DCDifferentialCodec_encode(unit.dc_coeffs).value]
    /\ UNCHANGED << args, img, codec, pc, enc, dec, trace >>

\* restored_dc = DCDifferentialCodec.decode(diffs)
DC_Decode ==
    /\ unit.kind = "dc" /\ unit.pc \in {"decode", "decode_only"}
    /\ unit' = IF DCDifferentialCodec_decode(unit.diffs).raised
               THEN [unit EXCEPT !.pc = "end", !.raised = TRUE]
               ELSE [unit EXCEPT !.pc = "end",
                        !.result = DCDifferentialCodec_decode(unit.diffs).value]
    /\ UNCHANGED << args, img, codec, pc, enc, dec, trace >>

NextDc == DC_Encode \/ DC_Decode

SpecDc == InitDc /\ [][NextDc]_vars

(***************************************************************************)
(* functions/qantizer.py run on its own, as its self-test does: the tables *)
(* of a quality are built, a coefficient tile is quantized with one of     *)
(* them and dequantized.                                                   *)
(***************************************************************************)
\* the coefficient tiles of the runs, as Fix matrices: half-integers (ties of
\* the rounding), values spread over about -280 .. 320, and a tile with the
\* largest DC term of a byte tile
TestCoeffs(kind) ==
    [i \in 1 .. 8 |-> [j \in 1 .. 8 |->
        LET k == (i - 1) * 8 + j
        IN  CASE kind = "halves" -> (2 * k - 65) * (FixOne \div 2)
              [] kind = "spread" -> (37 * k * k - 70000) * 4099
              [] OTHER           -> IF k = 1 THEN (0 - 1024) * FixOne
                                    ELSE (k * FixOne) \div 7]]

CoeffKinds == {"halves", "spread", "dc"}

InitQuant ==
    /\ PipelineIdle
    /\ unit \in { [kind |-> "quant", pc |-> "tables", quality |-> q, plane |-> p,
                   coeffs |-> TestCoeffs(c), tables |-> << >>, table |-> << >>,
                   q |-> << >>, restored |-> << >>, raised |-> FALSE] :
                  q \in 0 .. 100, p \in {1, 2}, c \in CoeffKinds }

\* qt_y, qt_c = Quantizer.get_quant_tables(quality)
Q_Tables ==
    /\ unit.kind = "quant" /\ unit.pc = "tables"
    /\ unit' = [unit EXCEPT !.pc = "quantize",
                            !.tables = get_quant_tables(unit.quality),
                            !.table = get_quant_tables(unit.quality)[unit.plane]]
    /\ UNCHANGED << args, img, codec, pc, enc, dec, trace >>

\* q = Quantizer.quantize(block, qt)
Q_Quantize ==
    /\ unit.kind = "quant" /\ unit.pc = "quantize"
    /\ unit' = IF Quantizer_quantize(unit.coeffs, unit.table).raised
               THEN [unit EXCEPT !.pc = "end", !.raised = TRUE]
               ELSE [unit EXCEPT !.pc = "dequantize",
                        !.q = Quantizer_quantize(unit.coeffs, unit.table).value]
    /\ UNCHANGED << args, img, codec, pc, enc, dec, trace >>

\* restored = Quantizer.dequantize(q, qt)
Q_Dequantize ==
    /\ unit.kind = "quant" /\ unit.pc = "dequantize"
    /\ unit' = IF Quantizer_dequantize(unit.q, unit.table).raised
               THEN [unit EXCEPT !.pc = "end", !.raised = TRUE]
               ELSE [unit EXCEPT !.pc = "end",
                        !.restored = Quantizer_dequantize(unit.q, unit.table).value]
    /\ UNCHANGED << args, img, codec, pc, enc, dec, trace >>

NextQuant == Q_Tables \/ Q_Quantize \/ Q_Dequantize

SpecQuant == InitQuant /\ [][NextQuant]_vars

(***************************************************************************)
(* functions/RGBToYCbCr.py run on its own: a buffer is converted and the   *)
(* result converted back, as in its self-test, or a YCbCr buffer (as the   *)
(* decoder hands over) is converted back.                                  *)
(***************************************************************************)
\* the buffer of the self-test: red, green, blue
TestRgb == << 255, 0, 0, 0, 255, 0, 0, 0, 255 >>

\* the channel values of the one-pixel buffers
ByteSamples == {0, 1, 28, 127, 128, 130, 228, 255}

\* the length of the longest of the buffers of one repeated value
MaxRgbLen == 7

\* the buffers of 0 .. MaxRgbLen bytes of one value: 0, 128 or 255
FlatBuffers == { [i \in 1 .. n |-> v] : n \in 0 .. MaxRgbLen, v \in {0, 128, 255} }

InitColour ==
    /\ PipelineIdle
    /\ unit \in { [kind |-> "colour", pc |-> "convert", rgb |-> b,
                   ycbcr |-> << >>, restored |-> << >>, raised |-> FALSE] :
                  b \in (ByteSamples \X ByteSamples \X ByteSamples)
                        \cup { TestRgb, << 255, 0 >> } \cup FlatBuffers }
            \cup
            { [kind |-> "colour", pc |-> "inverse", rgb |-> << >>,
               ycbcr |-> b, restored |-> << >>, raised |-> FALSE] :
              b \in (ByteSamples \X ByteSamples \X ByteSamples) \cup FlatBuffers }

\* ycbcr = RGBToYCbCr.convert(original_rgb)
RGB_Convert ==
    /\ unit.kind = "colour" /\ unit.pc = "convert"
    /\ unit' = IF RGBToYCbCr_convert(unit.rgb).raised
               THEN [unit EXCEPT !.pc = "end", !.raised = TRUE]
               ELSE [unit EXCEPT !.pc = "inverse",
                                 !.ycbcr = RGBToYCbCr_convert(unit.rgb).value]
    /\ UNCHANGED << args, img, codec, pc, enc, dec, trace >>

\* restored_rgb = RGBToYCbCr.inverse(ycbcr)
RGB_Inverse ==
    /\ unit.kind = "colour" /\ unit.pc = "inverse"
    /\ unit' = IF RGBToYCbCr_inverse(unit.ycbcr).raised
               THEN [unit EXCEPT !.pc = "end", !.raised = TRUE]
               ELSE [unit EXCEPT !.pc = "end",
                                 !.restored = RGBToYCbCr_inverse(unit.ycbcr).value]
    /\ UNCHANGED << args, img, codec, pc, enc, dec, trace >>

NextColour == RGB_Convert \/ RGB_Inverse

SpecColour == InitColour /\ [][NextColour]_vars

(***************************************************************************)
(* compressor/rle.py and compressor/ha.py run on their own: a byte string  *)
(* is compressed by one of the two coders and decompressed by it.          *)
(***************************************************************************)
\* the length of the long run of one value
LongRun == 10000

\* the bytes of the short strings
CoderBytes == {0, 7, 255}

\* the length of the longest of the short strings
MaxShort == 3

\* the strings: the short ones (the empty one among them), the long run, a
\* string of many different bytes, and a run longer than one count byte holds
\* between other bytes
CoderStrings ==
    UNION { [1 .. n -> CoderBytes] : n \in 0 .. MaxShort }
    \cup { [i \in 1 .. LongRun |-> 90],
           [i \in 1 .. 64 |-> (7 * i * i) % 256],
           [i \in 1 .. 300 |-> IF i = 1 THEN 3 ELSE IF i = 300 THEN 4 ELSE 0] }

InitCoders ==
    /\ PipelineIdle
    /\ unit \in { [kind |-> "coder", pc |-> "compress", coder |-> c, x |-> s,
                   packed |-> << >>, result |-> << >>] :
                  c \in {"rle", "huffman"}, s \in CoderStrings }

\* packed = coder.compress(x)
X_Compress ==
    /\ unit.kind = "coder" /\ unit.pc = "compress"
    /\ unit' = [unit EXCEPT !.pc = "decompress",
                    !.packed = IF unit.coder = "rle"
                               THEN RLECompressor_compress(unit.x)
                               ELSE HACompressor_compress(unit.x)]
    /\ UNCHANGED << args, img, codec, pc, enc, dec, trace >>

\* result = coder.decompress(packed)
X_Decompress ==
    /\ unit.kind = "coder" /\ unit.pc = "decompress"
    /\ unit' = [unit EXCEPT !.pc = "end",
                    !.result = IF unit.coder = "rle"
                               THEN RLECompressor_decompress(unit.packed)
                               ELSE HACompressor_decompress(unit.packed)]
    /\ UNCHANGED << args, img, codec, pc, enc, dec, trace >>

NextCoders == X_Compress \/ X_Decompress

SpecCoders == InitCoders /\ [][NextCoders]_vars

(***************************************************************************)
(* The codec and DCDifferentialCodec on its own, side by side: the runs of *)
(* the codec and the runs of functions/DCDifferentialCodec.py.             *)
(***************************************************************************)
InitCodecOrDc == Init \/ InitDc

NextCodecOrDc == Next \/ NextDc

SpecCodecOrDc == InitCodecOrDc /\ [][NextCodecOrDc]_vars

(***************************************************************************)
(* Several calls on one instance, and a container read by another          *)
(* instance: after a call has ended the instance compresses and            *)
(* decompresses another image, or an instance built with other arguments   *)
(* decompresses the container.  unit.log keeps what the ended calls took   *)
(* and returned.                                                           *)
(***************************************************************************)
\* the number of ended calls that are followed by another call
MaxCalls == 2

\* the arguments of the instance that compresses
CallArgs ==
    { [quality |-> 50, block_size |-> 8, subsample_xy |-> << 2, 2 >>, fill_value |-> 0],
      [quality |-> 100, block_size |-> 8, subsample_xy |-> << 1, 2 >>, fill_value |-> 128] }

\* the arguments of the instances that decompress a container of another one
ReaderArgs ==
    { [quality |-> 0, block_size |-> 4, subsample_xy |-> << 1, 2 >>, fill_value |-> 128],
      [quality |-> 100, block_size |-> 8, subsample_xy |-> << 1, 2 >>, fill_value |-> 128] }

CallImages == { MakeImage(MaxDim, 1, "ramp"), MakeImage(1, 1, "gray") }

\* what the call that has ended took and returned; own: the container is of
\* this instance's compress
EndedCall ==
    [args |-> args, img |-> img, own |-> unit.own, data |-> enc.out,
     result |-> dec.img, pc |-> pc]

InitCalls ==
    /\ args \in CallArgs
    /\ img \in CallImages
    /\ codec = NoCodec
    /\ pc = "new"
    /\ enc = EncInit
    /\ dec = DecInit
    /\ trace = << >>
    /\ unit = [kind |-> "calls", own |-> TRUE, log |-> << >>]

\* compressor.compress(img) and compressor.decompress(comp_bytes) once more,
\* on the same instance
CallAgain ==
    /\ pc \in {"done", "compress_raised", "decompress_raised"}
    /\ Len(unit.log) < MaxCalls
    /\ \E i \in CallImages : img' = i
    /\ unit' = [unit EXCEPT !.own = TRUE, !.log = Append(@, EndedCall)]
    /\ pc' = "begin"
    /\ enc' = EncInit
    /\ dec' = DecInit
    /\ UNCHANGED << args, codec, trace >>

\* JPEGCompressor(...) with other arguments, and its decompress(comp_bytes)
\* of the container at hand
ReadElsewhere ==
    /\ pc = "done"
    /\ Len(unit.log) < MaxCalls
    /\ \E a \in ReaderArgs \ {args} :
          /\ args' = a
          /\ codec' = JPEGCompressor_init(a.quality, a.block_size,
                                          a.subsample_xy, a.fill_value).value
    /\ unit' = [unit EXCEPT !.own = FALSE, !.log = Append(@, EndedCall)]
    /\ pc' = "compressed"
    /\ dec' = DecInit
    /\ UNCHANGED << img, enc, trace >>

NextCalls == Next \/ CallAgain \/ ReadElsewhere

SpecCalls == InitCalls /\ [][NextCalls]_vars

(***************************************************************************)
(* The codec on images of two tiles, the one black and the other white:    *)
(* the tiles whose DC terms are the least and the greatest there are.      *)
(***************************************************************************)
\* the 16 x 8 image whose left tile is gray level left and whose right tile
\* is gray level right
TwoToneImage(left, right) ==
    [w |-> 16, h |-> 8,
     data |-> Flatten([i \in 1 .. 16 * 8 |->
                 LET v == IF (i - 1) % 16 < 8 THEN left ELSE right
                 IN  << v, v, v >>])]

InitTwoTone ==
    /\ args \in [quality : Qualities, block_size : {8},
                 subsample_xy : Subsamples, fill_value : FillValues]
    /\ img \in { TwoToneImage(0, 255), TwoToneImage(255, 0) }
    /\ codec = NoCodec
    /\ pc = "new"
    /\ enc = EncInit
    /\ dec = DecInit
    /\ trace = << >>
    /\ unit = NoUnit

SpecTwoTone == InitTwoTone /\ [][Next]_vars

(***************************************************************************)
(* Properties of compress followed by decompress.                          *)
(***************************************************************************)
\* compress has returned the container
Compressed == enc.out # << >>

\* decompress has parsed the header (and has not raised since)
HeaderParsed ==
    pc \in {"huffman_decode", "region_split", "dc_rle_decode", "rebuild", "zigzag_decode",
            "dequantize", "idct", "merge", "upsample", "colour_inverse", "done"}

\* decompress has computed the tile counts and cut the DC and AC regions
RegionsSplit == HeaderParsed /\ pc \notin {"huffman_decode", "region_split"}

\* decompress has rebuilt the zigzag arrays
Rebuilt == RegionsSplit /\ pc \notin {"dc_rle_decode", "rebuild"}

\* the call sequence has ended: an image, or an exception
Ended == pc \in {"done", "compress_raised", "decompress_raised"}

C2_GrayExact ==
    (pc = "done" /\ codec.quality = 50 /\ codec.block_size = 8
         /\ img = MakeImage(8, 8, "gray"))
        => /\ Len(dec.img.data) = 3 * 8 * 8
           /\ \A i \in 1 .. Len(dec.img.data) : dec.img.data[i] = 128

\* C3: once decompress has rebuilt the zigzag arrays, array i is the array
\* compress produced for tile i, DC term and all AC terms.
C3_ZigZagRecovered ==
    Rebuilt => /\ Len(dec.all_blocks) = Len(enc.all_blocks)
               /\ \A i \in 1 .. Len(enc.all_blocks) :
                    /\ Len(dec.all_blocks[i]) = codec.block_size * codec.block_size
                    /\ dec.all_blocks[i] = enc.all_blocks[i]

\* several tiles with negative DC differences and negative AC terms were rebuilt
C3_Witness ==
    /\ pc = "done"
    /\ Len(enc.all_blocks) > 3
    /\ \E i \in 1 .. Len(enc.dc_diff) : enc.dc_diff[i] < 0
    /\ \E i \in 1 .. Len(enc.all_blocks) : \E k \in 2 .. Len(enc.all_blocks[i]) :
          enc.all_blocks[i][k] < 0

\* C4: the tiles compress cut are ceil(w/N) ceil(h/N) for Y and
\* ceil(ds_w/N) ceil(ds_h/N) for each of Cb and Cr; the counts decompress
\* derives from the header are these; the DC region decompress cuts is the
\* DC bytes compress wrote, 2 total bytes; and the rebuilt arrays [0, nY),
\* [nY, nY + nC), [nY + nC, nY + 2 nC) are compress's Y, Cb and Cr arrays.
C4_TileCounts ==
    /\ enc.blocks_Y # << >> =>
          /\ Len(enc.blocks_Y) = CeilDiv(img.w, codec.block_size)
                                   * CeilDiv(img.h, codec.block_size)
          /\ Len(enc.blocks_Cb) = CeilDiv(enc.w_cb, codec.block_size)
                                    * CeilDiv(enc.h_cb, codec.block_size)
          /\ Len(enc.blocks_Cr) = Len(enc.blocks_Cb)
    /\ RegionsSplit =>
          /\ dec.nY = Len(enc.blocks_Y)
          /\ dec.nC = Len(enc.blocks_Cb)
          /\ dec.nC = Len(enc.blocks_Cr)
          /\ dec.total = Len(enc.all_blocks)
          /\ Len(dec.dc_bytes) = 2 * dec.total
          /\ dec.dc_bytes = enc.dc_bytes
          /\ dec.ac_rle = enc.ac_rle
    /\ Rebuilt =>
          /\ Slice(dec.all_blocks, 0, dec.nY) = enc.zz_Y
          /\ Slice(dec.all_blocks, dec.nY, dec.nY + dec.nC) = enc.zz_Cb
          /\ Slice(dec.all_blocks, dec.nY + dec.nC, dec.nY + 2 * dec.nC) = enc.zz_Cr

\* a decode with different numbers of Y and chroma tiles
C4_Witness == pc = "done" /\ dec.nY = 4 /\ dec.nC = 2 /\ Len(enc.zz_Cr) = 2

\* C5: the container is the 10 header bytes, big-endian, width, height, block
\* size, quality, chroma width, chroma height, then the payload; decompress
\* reads these values back.
C5_Header ==
    LET cw == CeilDiv(img.w, codec.sub_x)
        ch == CeilDiv(img.h, codec.sub_y)
    IN  /\ Compressed =>
              /\ Len(enc.out) >= 10
              /\ SubSeq(enc.out, 1, 10) =
                    << img.w \div 256, img.w % 256, img.h \div 256, img.h % 256,
                       codec.block_size, codec.quality,
                       cw \div 256, cw % 256, ch \div 256, ch % 256 >>
              /\ SubSeq(enc.out, 11, Len(enc.out)) = enc.payload
        /\ HeaderParsed =>
              /\ dec.w = img.w /\ dec.h = img.h
              /\ dec.bs = codec.block_size /\ dec.q = codec.quality
              /\ dec.ds_w = cw /\ dec.ds_h = ch

\* a header whose width needs both bytes was written and read back
C5_Witness == HeaderParsed /\ img.w = WideDim /\ dec.w = WideDim /\ enc.out[1] = 1

\* the stages the order is stated for: those of compress, then those of
\* decompress
OrderedStages ==
    << "colour", "downsample", "split", "dct", "quantize", "zigzag", "dcac",
       "dcdiff_rle", "concat", "huffman", "header",
       "header_parse", "huffman_decode", "region_split", "dc_rle_decode", "rebuild",
       "zigzag_decode", "dequantize", "idct", "merge", "upsample", "colour_inverse" >>

StageRank(stage) == CHOOSE k \in 1 .. Len(OrderedStages) : OrderedStages[k] = stage

IsOrderedStage(stage) == \E k \in 1 .. Len(OrderedStages) : OrderedStages[k] = stage

\* the stage of decompress that undoes a stage of compress
UndoneBy(stage) == OrderedStages[Len(OrderedStages) + 1 - StageRank(stage)]

\* C6: the stages run in the stated order, the three per-tile stages repeating
\* tile after tile (not at all for an image without tiles), and the stages of
\* a complete decompress are the undoing stages of the compress in reverse.
C6_StageOrder ==
    LET t == SelectSeq(trace, IsOrderedStage)
        e == SelectSeq(t, LAMBDA st : StageRank(st) <= 11)
        d == SelectSeq(t, LAMBDA st : StageRank(st) > 11)
    IN  /\ Len(t) > 0 => t[1] = "colour"
        /\ \A i \in 1 .. Len(t) - 1 :
              \/ StageRank(t[i + 1]) = StageRank(t[i]) + 1
              \/ t[i] = "zigzag" /\ t[i + 1] = "dct"
              \/ t[i] = "split" /\ t[i + 1] = "dcac" /\ enc.blocks_Y = << >>
              \/ t[i] = "idct" /\ t[i + 1] = "zigzag_decode"
        /\ pc = "done" =>
              /\ Len(d) = Len(e)
              /\ \A i \in 1 .. Len(d) : d[i] = UndoneBy(e[Len(e) + 1 - i])

\* a complete run over several tiles
C6_Witness == pc = "done" /\ Len(trace) > 60

(***************************************************************************)
(* Properties of BlockSplitter and ZigZag.                                 *)
(***************************************************************************)
\* C7: inverse of the tiles convert made of a plane is the plane.
C7_SplitMerge ==
    (unit.kind = "blocks" /\ unit.pc = "end")
        => /\ ~unit.raised
           /\ unit.result = unit.data

\* a plane that needs padding on both sides and several tiles was merged back
C7_Witness ==
    /\ unit.kind = "blocks" /\ unit.pc = "end"
    /\ unit.width = MaxPlane /\ unit.height = 3 /\ unit.block_size = 2
    /\ unit.fill_value = 255 /\ Len(unit.result) = 3 * MaxPlane

\* C8: convert returns ceil(width/N) ceil(height/N) tiles of N N samples; tile
\* k is the tile of tile-row k div ceil(width/N) and tile-column
\* k mod ceil(width/N); a sample outside the plane is the fill value.
C8_TileGrid ==
    (unit.kind = "blocks" /\ unit.pc \in {"inverse", "end"} /\ ~unit.raised)
        => LET N   == unit.block_size
               bpr == CeilDiv(unit.width, N)
               bpc == CeilDiv(unit.height, N)
           IN  /\ Len(unit.blocks) = bpr * bpc
               /\ \A k \in 0 .. Len(unit.blocks) - 1 :
                    /\ Len(unit.blocks[k + 1]) = N * N
                    /\ \A r \in 0 .. N - 1 : \A c \in 0 .. N - 1 :
                         LET y == (k \div bpr) * N + r
                             x == (k % bpr) * N + c
                         IN  unit.blocks[k + 1][r * N + c + 1] =
                                IF y < unit.height /\ x < unit.width
                                THEN unit.data[y * unit.width + x + 1]
                                ELSE unit.fill_value

\* a plane cut into a 2 x 2 grid of tiles, padded on the right and at the bottom
C8_Witness ==
    /\ unit.kind = "blocks" /\ unit.pc = "inverse"
    /\ unit.width = MaxPlane /\ unit.height = MaxPlane /\ unit.block_size = 3
    /\ unit.fill_value = 255 /\ Len(unit.blocks) = 4
    /\ unit.blocks[4][9] = 255

\* C9: decode of the sequence encode made of a tile is the tile.
C9_ZigZagRoundTrip ==
    (unit.kind = "zigzag" /\ unit.pc = "end")
        => /\ ~unit.raised
           /\ unit.result = unit.block

\* an 8 x 8 tile went through encode and decode
C9_Witness ==
    /\ unit.kind = "zigzag" /\ unit.pc = "end" /\ unit.block_size = 8
    /\ unit.block = TestTile(8, 3) /\ Len(unit.flat) = 64

\* C10: the index list holds every cell of the N x N tile once, starts at
\* (0, 0) and walks the anti-diagonals s = 0 .. 2N - 2 in increasing s, the row
\* decreasing along an even s and increasing along an odd s; the self-test's
\* 4 x 4 tile encodes to 1, 2, ..., 16.
C10_ZigZagOrder ==
    /\ (unit.kind = "zigzag" /\ unit.pc \in {"encode", "decode", "end"} /\ ~unit.raised)
        => LET idx  == unit.indices
               n    == unit.block_size
               S(k) == idx[k][1] + idx[k][2]
           IN  /\ Len(idx) = n * n
               /\ \A i \in 0 .. n - 1 : \A j \in 0 .. n - 1 :
                     Cardinality({ k \in 1 .. Len(idx) : idx[k] = << i, j >> }) = 1
               /\ idx[1] = << 0, 0 >>
               /\ S(Len(idx)) = 2 * n - 2
               /\ \A k \in 1 .. Len(idx) - 1 :
                     \/ S(k + 1) = S(k) + 1
                     \/ /\ S(k + 1) = S(k)
                        /\ idx[k + 1][1] = IF S(k) % 2 = 0 THEN idx[k][1] - 1
                                           ELSE idx[k][1] + 1
    /\ (unit.kind = "zigzag" /\ unit.pc \in {"decode", "end"} /\ unit.block = TestBlock)
        => unit.flat = [k \in 1 .. 16 |-> k]

\* the self-test's tile was encoded
C10_Witness ==
    /\ unit.kind = "zigzag" /\ unit.pc = "decode" /\ unit.block = TestBlock
    /\ Len(unit.indices) = 16 /\ unit.flat[16] = 16

(***************************************************************************)
(* Properties of DCDifferentialCodec.                                      *)
(***************************************************************************)
\* C11: decode of the differences encode made of a non-empty sequence, of
\* length 1 included, is the sequence.
C11_DcRoundTrip ==
    (unit.kind = "dc" /\ unit.pc = "end" /\ Len(unit.dc_coeffs) >= 1)
        => /\ ~unit.raised
           /\ unit.result = unit.dc_coeffs

\* a sequence that falls and rises was encoded and decoded
C11_Witness ==
    /\ unit.kind = "dc" /\ unit.pc = "end"
    /\ unit.dc_coeffs = << 3, -1024, 0, 3 >> /\ Len(unit.result) = 4

\* C12: encode returns as many values as it was given, the first the first
\* input and value i the input i minus the input i - 1; the self-test's
\* sequence encodes to 100, 2, -4, 7, 0, 5.
C12_DcDiffs ==
    (unit.kind = "dc" /\ unit.pc \in {"decode", "end"} /\ ~unit.raised)
        => /\ Len(unit.diffs) = Len(unit.dc_coeffs)
           /\ unit.diffs[1] = unit.dc_coeffs[1]
           /\ \A i \in 2 .. Len(unit.dc_coeffs) :
                 unit.diffs[i] = unit.dc_coeffs[i] - unit.dc_coeffs[i - 1]
           /\ unit.dc_coeffs = TestDc => unit.diffs = << 100, 2, -4, 7, 0, 5 >>

\* the self-test's sequence was encoded
C12_Witness ==
    /\ unit.kind = "dc" /\ unit.pc = "decode" /\ unit.dc_coeffs = TestDc
    /\ Len(unit.diffs) = 6 /\ unit.diffs[3] = -4

(***************************************************************************)
(* Properties of Quantizer.                                                *)
(***************************************************************************)
\* C13: for a quality q in 0 .. 100 every entry of the luma and of the chroma
\* table is clamp(floor((base scale + 50) / 100), 1, 255), with q' = clamp(q,
\* 1, 100) and scale = 5000 div q' if q' < 50, else 200 - 2 q'; the entries
\* are in 1 .. 255; quality 0 gives the tables of quality 1, quality 50 the
\* base tables, quality 100 tables of ones.
C13_QuantTables ==
    (unit.kind = "quant" /\ unit.pc # "tables")
        => LET Entry(b, q) ==
                   LET qq    == IF q < 1 THEN 1 ELSE IF q > 100 THEN 100 ELSE q
                       scale == IF qq < 50 THEN 5000 \div qq ELSE 200 - 2 * qq
                       e     == (b * scale + 50) \div 100
                   IN  IF e < 1 THEN 1 ELSE IF e > 255 THEN 255 ELSE e
               bases == << _BASE_LUMINANCE, _BASE_CHROMINANCE >>
           IN  /\ Len(unit.tables) = 2
               /\ \A p \in 1 .. 2 : \A i \in 1 .. 8 : \A j \in 1 .. 8 :
                    /\ unit.tables[p][i][j] = Entry(bases[p][i][j], unit.quality)
                    /\ unit.tables[p][i][j] \in 1 .. 255
                    /\ unit.quality = 0 => unit.tables[p][i][j] = Entry(bases[p][i][j], 1)
                    /\ unit.quality = 50 => unit.tables[p][i][j] = bases[p][i][j]
                    /\ unit.quality = 100 => unit.tables[p][i][j] = 1

\* the tables of a quality whose scaling rounds up (11 * 50 + 50 = 600) exist
C13_Witness ==
    /\ unit.kind = "quant" /\ unit.pc = "quantize" /\ unit.quality = 75
    /\ unit.tables[1][1][2] = 6 /\ unit.tables[2][1][1] = 9

C15_RoundedClamped ==
    LET Nearest(v, n, d) ==
            \E w \in {n \div d, (n \div d) + 1} :
                2 * Abs(w * d - n) <= d /\ v = Clip(w, 0, 255)
    IN  unit.kind = "colour" =>
          /\ (Len(unit.rgb) > 0 /\ Len(unit.ycbcr) > 0) =>
                \A i \in 1 .. Len(unit.rgb) \div 3 :
                    LET r == unit.rgb[3 * i - 2]
                        g == unit.rgb[3 * i - 1]
                        b == unit.rgb[3 * i]
                    IN  /\ Nearest(unit.ycbcr[3 * i - 2],
                                   299 * r + 587 * g + 114 * b, 1000)
                        /\ Nearest(unit.ycbcr[3 * i - 1],
                                   -1687 * r - 3313 * g + 5000 * b + 1280000, 10000)
                        /\ Nearest(unit.ycbcr[3 * i],
                                   5000 * r - 4187 * g - 813 * b + 1280000, 10000)
          /\ Len(unit.restored) > 0 =>
                \A i \in 1 .. Len(unit.ycbcr) \div 3 :
                    LET y  == unit.ycbcr[3 * i - 2]
                        cb == unit.ycbcr[3 * i - 1]
                        cr == unit.ycbcr[3 * i]
                    IN  /\ Nearest(unit.restored[3 * i - 2],
                                   1000 * y + 1402 * (cr - 128), 1000)
                        /\ Nearest(unit.restored[3 * i - 1],
                                   100000 * y - 34414 * (cb - 128) - 71414 * (cr - 128),
                                   100000)
                        /\ Nearest(unit.restored[3 * i],
                                   1000 * y + 1772 * (cb - 128), 1000)

(***************************************************************************)
(* Properties of the decoder's samples.                                    *)
(***************************************************************************)
\* C16: every sample _restore appends for a tile is the inverse DCT value
\* plus 128, rounded to the nearest integer (at a tie, either neighbour) and
\* clamped to 0 .. 255.
C16_SamplesRounded ==
    [][ (pc = "idct" /\ pc' # "decompress_raised") =>
            LET real == DCT2D_inverse(dec.bs, dec.C).value
                outs == IF dec.plane = "Y" THEN dec.out_Y'
                        ELSE IF dec.plane = "Cb" THEN dec.out_Cb' ELSE dec.out_Cr'
                tile == outs[Len(outs)]
            IN  \A y \in 1 .. dec.bs : \A x \in 1 .. dec.bs :
                    LET n == real[y][x] + ToFix(128)
                    IN  \E w \in {n \div FixOne, (n \div FixOne) + 1} :
                            /\ 2 * Abs(w * FixOne - n) <= FixOne
                            /\ tile[y][x] = Clip(w, 0, 255) ]_vars

(***************************************************************************)
(* Properties of the byte coders.                                          *)
(***************************************************************************)
\* C17: for the run-length coder and for the Huffman coder, decompress of
\* compress of a byte string is the string: the empty string, a string of one
\* distinct symbol and a run of 10,000 equal bytes included.
C17_CodersLossless ==
    (unit.kind = "coder" /\ unit.pc = "end") => unit.result = unit.x

\* the long run went through the run-length coder, in pairs of full counts
\* and one rest
C17_Witness ==
    /\ unit.kind = "coder" /\ unit.pc = "end" /\ unit.coder = "rle"
    /\ Len(unit.x) = LongRun /\ Len(unit.result) = LongRun
    /\ Len(unit.packed) = 2 * CeilDiv(LongRun, MaxRun)

(***************************************************************************)
(* Properties of the errors.                                               *)
(***************************************************************************)
\* C18: with a quality outside 0 .. 100, a block size <= 0, a fill value
\* outside 0 .. 255 or a subsample factor <= 0 the constructor raises: no
\* instance exists, and compress and decompress never run; an instance that
\* exists has none of these.
C18_ConfigError ==
    LET bad == \/ args.quality \notin 0 .. 100
               \/ args.block_size <= 0
               \/ args.fill_value \notin 0 .. 255
               \/ args.subsample_xy[1] <= 0
               \/ args.subsample_xy[2] <= 0
    IN  /\ bad => /\ pc \in {"new", "config_error"}
                  /\ codec = NoCodec
                  /\ enc = EncInit /\ dec = DecInit
        /\ pc = "config_error" => bad
        /\ codec # NoCodec =>
              /\ codec.quality \in 0 .. 100
              /\ codec.block_size > 0
              /\ codec.fill_value \in 0 .. 255
              /\ codec.sub_y > 0 /\ codec.sub_x > 0

\* the constructor has raised on a fill value that only BlockSplitter checks
C18_Witness == pc = "config_error" /\ args.fill_value = 256 /\ codec = NoCodec

\* C19: on a codec whose block size is not 8 compress raises for every image,
\* at the first tile's quantize at the latest (for an image without tiles, at
\* the DC differences), and returns no container; nothing is there to
\* decompress.
C19_BlockSizeNot8 ==
    (codec # NoCodec /\ codec.block_size # 8)
        => /\ pc \in {"begin", "colour", "downsample", "split", "compress_raised"}
                      \cup (IF img.w = 0 \/ img.h = 0
                            THEN {"gather", "dcac", "dcdiff_rle"}
                            ELSE {"dct", "quantize"})
           /\ enc.out = << >>
           /\ dec = DecInit
           /\ pc = "compress_raised" =>
                 trace[Len(trace)] = IF img.w = 0 \/ img.h = 0 THEN "dcdiff_rle"
                                     ELSE "quantize"

\* compress has raised on a codec of block size 4 that had cut several tiles
C19_Witness ==
    /\ pc = "compress_raised" /\ codec.block_size = 4
    /\ Len(enc.blocks_Y) > 1 /\ enc.out = << >>

\* C20: inverse called with a list of tiles whose length is not
\* ceil(width/N) ceil(height/N) raises and returns no plane.
C20_TileCountError ==
    (unit.kind = "blocks" /\ unit.pc \in {"end", "end_miscounted"}
       /\ Len(IF unit.pc = "end" THEN unit.blocks ELSE unit.handed)
            # CeilDiv(unit.width, unit.block_size) * CeilDiv(unit.height, unit.block_size))
        => /\ unit.raised
           /\ unit.result = << >>

\* inverse has raised on a list with one tile more than the 2 x 2 grid needs
C20_Witness ==
    /\ unit.kind = "blocks" /\ unit.pc = "end_miscounted"
    /\ unit.width = MaxPlane /\ unit.height = MaxPlane /\ unit.block_size = 3
    /\ Len(unit.handed) = 5 /\ unit.raised

\* C21: encode and decode raise on an empty sequence and return nothing; and
\* compress of an image that yields no tile raises, at the DC differences,
\* and returns no container.
C21_EmptyInput ==
    /\ (unit.kind = "dc" /\ unit.pc = "end" /\ unit.dc_coeffs = << >>)
          => /\ unit.raised
             /\ unit.diffs = << >> /\ unit.result = << >>
    /\ (pc \in {"dcdiff_rle", "compress_raised"} /\ enc.all_blocks = << >>
          /\ trace[Len(trace)] \in {"dcac", "dcdiff_rle"}) => enc.dc_vals = << >>
    /\ (codec # NoCodec /\ (img.w = 0 \/ img.h = 0))
          => /\ enc.out = << >>
             /\ dec = DecInit
             /\ pc \in {"begin", "colour", "downsample", "split", "gather", "dcac",
                        "dcdiff_rle", "compress_raised"}
             /\ pc = "compress_raised" => trace[Len(trace)] = "dcdiff_rle"

\* compress of the 0 x 3 image, on a codec of block size 8, has raised at the
\* DC differences
C21_Witness ==
    /\ pc = "compress_raised" /\ img.w = 0 /\ img.h = 3 /\ codec.block_size = 8
    /\ trace[Len(trace)] = "dcdiff_rle" /\ enc.out = << >>

\* C22: convert and inverse raise and return nothing on a buffer whose length
\* is not a multiple of 3, and on a buffer whose length is a multiple of 3
\* they return a buffer of that length.
C22_TripletLength ==
    unit.kind = "colour" =>
        /\ (unit.pc # "convert" /\ unit.rgb # << >>) =>
              IF Len(unit.rgb) % 3 # 0
              THEN /\ unit.raised /\ unit.pc = "end"
                   /\ unit.ycbcr = << >> /\ unit.restored = << >>
              ELSE Len(unit.ycbcr) = Len(unit.rgb)
        /\ (unit.pc = "end" /\ Len(unit.rgb) % 3 = 0) =>
              IF Len(unit.ycbcr) % 3 # 0
              THEN unit.raised /\ unit.restored = << >>
              ELSE ~unit.raised /\ Len(unit.restored) = Len(unit.ycbcr)

\* convert has raised on a buffer of 4 bytes
C22_Witness ==
    /\ unit.kind = "colour" /\ unit.pc = "end" /\ unit.raised
    /\ Len(unit.rgb) = 4 /\ unit.ycbcr = << >>

\* the calls that have ended: those of the log and the one at hand
EndedCalls ==
    IF unit.kind # "calls" THEN << >>
    ELSE IF pc \in {"done", "compress_raised", "decompress_raised"}
    THEN Append(unit.log, EndedCall)
    ELSE unit.log

C24_ContainerAlone ==
    \A i, j \in 1 .. Len(EndedCalls) :
        (EndedCalls[i].data = EndedCalls[j].data /\ EndedCalls[i].data # << >>)
            => /\ EndedCalls[i].result = EndedCalls[j].result
               /\ EndedCalls[i].pc = "done" /\ EndedCalls[j].pc = "done"

\* a container of an instance was decompressed by it and by an instance of
\* another quality, block size, subsample factors and fill value
C24_Witness ==
    /\ Len(EndedCalls) >= 2
    /\ LET a == EndedCalls[1]
           b == EndedCalls[2]
       IN  /\ a.own /\ ~b.own /\ a.data = b.data /\ a.data # << >>
           /\ a.pc = "done" /\ b.pc = "done"
           /\ a.img = MakeImage(MaxDim, 1, "ramp")
           /\ a.args.quality # b.args.quality
           /\ a.args.block_size # b.args.block_size
           /\ a.args.subsample_xy # b.args.subsample_xy
           /\ a.args.fill_value # b.args.fill_value

\* C25: with block size 8 and a quality in [0, 100] every quantized DC term of
\* the encoder is in [-1024, 1016] and every DC difference in [-2040, 2040]:
\* the differences are written as signed 16-bit integers that read back as
\* themselves, and compress does not raise.
C25_DcRange ==
    (codec # NoCodec /\ codec.block_size = 8 /\ codec.quality \in 0 .. 100)
        => /\ enc.Q # << >> => enc.Q[1][1] \in -1024 .. 1016
           /\ \A k \in 1 .. Len(enc.dc_vals) : enc.dc_vals[k] \in -1024 .. 1016
           /\ \A k \in 1 .. Len(enc.dc_diff) :
                 /\ enc.dc_diff[k] \in -2040 .. 2040
                 /\ Int16Of(enc.dc_bytes[2 * k - 1], enc.dc_bytes[2 * k]) = enc.dc_diff[k]
           /\ pc # "compress_raised"

\* at quality 100 a black tile and a white tile after it: the DC terms -1024
\* and 1016 and the difference 2040 have been written
C25_Witness ==
    /\ codec.quality = 100 /\ enc.dc_bytes # << >>
    /\ enc.dc_vals[1] = -1024 /\ enc.dc_vals[2] = 1016
    /\ enc.dc_diff[2] = 2040

=============================================================================
